---- MODULE Spec2Model ----
(***************************************************************************)
(* Event-stream ingestion layer of the liquidator: the reconnecting stream *)
(* driver (Listener::start, start_price_listener) and the stores its       *)
(* handlers write: the reserve synchronization store of ReserveListener    *)
(* and the oracle price store of PriceListener.                            *)
(***************************************************************************)
EXTENDS Integers, Sequences, FiniteSets, TLC

(***************************************************************************)
(* Bounds of the model.                                                    *)
(***************************************************************************)
\* Messages a feed delivers in one session before it ends or errors.
MaxMsgs == 2
\* Largest token amount an account update carries.
MaxAmount == 2
\* handle_update calls one ReserveListener receives.
MaxUpdates == 4
\* handle_update calls made on one ReserveListener by concurrent callers.
MaxCalls == 2
\* Cap of the observation counters of connection attempts (never reached by
\* the driver as written, whose budget is max_retries).
ConnCap == 7
\* handle_update calls one PriceListener receives.
MaxPriceUpdates == 3
\* handle_update calls one OrcaTickArrayListener receives.
MaxTickUpdates == 3
\* handle_update calls one BlockHashListener receives.
MaxBlocks == 3
\* Largest slot a block-metadata notification carries.
MaxSlot == 2
\* Account updates the feed delivers on one subscription.
MaxDeliveries == 2
\* handle_update calls a ReserveListener of two pools receives.
MaxPairUpdates == 3
\* Price updates the driver handles while main runs.
MaxMainUpdates == 1

(***************************************************************************)
(* Program constants.                                                      *)
(***************************************************************************)
\* let max_retries = 5;
max_retries == 5

(***************************************************************************)
(* State of one driver instance.                                           *)
(***************************************************************************)
VARIABLES
    kind,       \* the listener variant the driver runs (impl Listener for ...)
    pc,         \* position of the driver task in start()
    attempt,    \* let mut attempt
    cur,        \* the update_oneof handle_update is running on, or NoMsg
    received,   \* this session's messages in receive order: has a variant?
    handled,    \* this session's completed handle_update calls, by index
    connects,   \* observation: GeyserClient::connect calls made
    connOk,     \* observation: connect calls that succeeded
    sleeps,     \* observation: tokio::time::sleep(retry_delay) calls made
    sessBuilt,  \* observation: get_subscription_request calls of this session
    sessSent,   \* observation: outbound messages of this session
    sessEnd,    \* how the last attempt ended, "none" while it is running
    ended,      \* observation: attempts that ended (failed, errored, ran out)
    built       \* observation: get_subscription_request calls made

driverVars == <<kind, pc, attempt, cur, received, handled, connects, connOk,
                sleeps, sessBuilt, sessSent, sessEnd, ended, built>>

(***************************************************************************)
(* State of one ReserveListener and of the tasks it spawns.                *)
(***************************************************************************)
VARIABLES
    pools_by_mints,     \* the registry: MintPair -> set of Pool values
    pool,               \* the Arc<RwLock<Pool>> objects: pool id -> Pool
    vault_to_pool_map,  \* vault -> id of the pool object it belongs to
    last_updated,       \* vault -> bool
    evals,              \* spawned check_arbitrage_opportunities tasks running
    task,               \* the task calling handle_update: running or dead
    fresh,              \* observation: pool id -> vaults updated since the
                        \* pool's last settlement
    obs,                \* observation: the last handle_update call
    nupd                \* observation: handle_update calls made

reserveVars == <<pools_by_mints, pool, vault_to_pool_map, last_updated, evals,
                 task, fresh, obs, nupd>>

(***************************************************************************)
(* Callers of ReserveListener::handle_update running concurrently, and the *)
(* locks they take.                                                        *)
(***************************************************************************)
VARIABLES
    thr,         \* caller -> its position in handle_update and its locals
    shard_of,    \* vault -> shard of vault_to_pool_map its key hashes to
    shard_lock,  \* shard -> caller holding its write lock (a RefMut), or 0
    pool_lock,   \* pool id -> caller holding the RwLock write guard, or 0
    settled,     \* observation: settlements fired
    completed    \* observation: vault -> handle_update calls returned

concVars == <<thr, shard_of, shard_lock, pool_lock, settled, completed>>

(***************************************************************************)
(* Oracle price store: the global PRICE_STATE PriceListener writes.        *)
(***************************************************************************)
VARIABLES
    PRICE_STATE,  \* mint -> TokenPrice, or NoPrice where the map has no entry
    pobs,         \* observation: the last PriceListener::handle_update call
    npr           \* observation: PriceListener::handle_update calls made

priceVars == <<PRICE_STATE, pobs, npr>>

(***************************************************************************)
(* Sub-object cache: the TickArrayCache OrcaTickArrayListener writes.      *)
(***************************************************************************)
VARIABLES
    tick_arrays,  \* tick_cache.tick_arrays: key -> TickArray, or NoTick
    tobs,         \* observation: the last OrcaTickArrayListener::handle_update
    ntk           \* observation: OrcaTickArrayListener::handle_update calls made

tickVars == <<tick_arrays, tobs, ntk>>

(***************************************************************************)
(* Chain-tip state: the global SHARED_STATE BlockHashListener writes.      *)
(***************************************************************************)
VARIABLES
    SHARED_STATE,  \* the entry under the key (), or NoAppState
    tip_read,      \* the record the last reader got
    bobs,          \* observation: the last BlockHashListener::handle_update
    nblk           \* observation: BlockHashListener::handle_update calls made

tipVars == <<SHARED_STATE, tip_read, bobs, nblk>>

(***************************************************************************)
(* A listener, the descriptor it subscribes with and the feed serving it.  *)
(***************************************************************************)
VARIABLES
    sub_kind,   \* the listener: "reserve" or "price"
    watch,      \* reserve_keys / price_accounts of the listener
    desc,       \* the SubscribeRequest sent: its account filters; NoDesc before
    sub_pc,     \* "build" before the request is sent, "stream" after,
                \* "panicked" once a handler call has panicked
    invoked,    \* observation: handle_update calls made
    sobs        \* observation: the account of the last update delivered

subVars == <<sub_kind, watch, desc, sub_pc, invoked, sobs>>

(***************************************************************************)
(* Several driver instances, each a task running Listener::start.          *)
(***************************************************************************)
VARIABLES
    inst        \* instance -> [pc, attempt, msgs] of its start() call

instVars == <<inst>>

(***************************************************************************)
(* main (main.rs): the task that spawns the price listener's driver and    *)
(* then reads the price store in its processing loop.                      *)
(***************************************************************************)
VARIABLES
    main        \* [pc, seen, late]: main's position, the prices its last
                \* iteration read, and whether the driver had stopped by then

mainVars == <<main>>

auxVars == <<tickVars, tipVars, subVars, instVars, mainVars>>

\* Everything the driver's own steps leave alone.
storeVars == <<reserveVars, concVars, priceVars, auxVars>>

vars == <<driverVars, storeVars>>

Kinds == {"reserve", "poolstate", "tick", "price", "blockhash"}

NoMsg == [type |-> "none", key32 |-> TRUE, tracked |-> TRUE, ok |-> TRUE]

\* A SubscribeUpdate: update_oneof is None ("none"), an account update or
\* another variant; the account's pubkey has 32 bytes or not, is known to the
\* listener or not, and its data decodes (is long enough) or not.
Msgs ==
    {NoMsg}
    \cup [type : {"account"}, key32 : BOOLEAN, tracked : BOOLEAN, ok : BOOLEAN]
    \cup {[type |-> "other", key32 |-> TRUE, tracked |-> TRUE, ok |-> TRUE]}

HasVariant(m) == m.type # "none"

\* What a handle_update call can do to the task that runs it: return, panic
\* (unwind out of start), or take the process down (an out-of-bounds read).
\* A read the language leaves undefined yields any of the outcomes.
HandlerOutcomes(k, m) ==
    IF m.type # "account" THEN {"return"}
    ELSE CASE k = "reserve" ->
                 IF ~m.key32 THEN {"return", "panic", "crash"}
                 ELSE IF ~m.tracked THEN {"panic"}
                 ELSE IF ~m.ok THEN {"return", "crash"}
                 ELSE {"return"}
           [] k = "poolstate" ->
                 IF ~m.key32 THEN {"return", "panic", "crash"}
                 ELSE IF ~m.ok THEN {"panic"}
                 ELSE {"return"}
           [] k = "tick" ->
                 IF ~m.key32 THEN {"return", "panic", "crash"}
                 ELSE {"return"}
           [] k = "price" -> {"return"}
           [] OTHER -> {"return"}

\* if attempt >= max_retries { ... break; }
Exhausted_gt(a) == a > max_retries
Exhausted(a) == a >= max_retries

DriverInit ==
    /\ kind \in Kinds
    /\ pc = "connect"
    /\ attempt = 0
    /\ cur = NoMsg
    /\ received = <<>>
    /\ handled = <<>>
    /\ connects = 0
    /\ connOk = 0
    /\ sleeps = 0
    /\ sessBuilt = 0
    /\ sessSent = 0
    /\ sessEnd = "none"
    /\ ended = 0
    /\ built = 0

\* attempt += 1; GeyserClient::connect(..) fails.
ConnectFail ==
    /\ pc = "connect"
    /\ connects < ConnCap
    /\ attempt' = attempt + 1
    /\ connects' = connects + 1
    /\ pc' = "check"
    /\ sessEnd' = "connfail"
    /\ received' = <<>>
    /\ handled' = <<>>
    /\ sessBuilt' = 0
    /\ sessSent' = 0
    /\ UNCHANGED <<kind, cur, connOk, sleeps>>
    /\ ended' = ended + 1
    /\ UNCHANGED <<built>>
    /\ UNCHANGED storeVars

\* attempt += 1; GeyserClient::connect(..) succeeds.
ConnectOk ==
    /\ pc = "connect"
    /\ connects < ConnCap
    /\ attempt' = attempt + 1
    /\ connects' = connects + 1
    /\ connOk' = connOk + 1
    /\ pc' = "subscribe"
    /\ sessEnd' = "none"
    /\ received' = <<>>
    /\ handled' = <<>>
    /\ sessBuilt' = 0
    /\ sessSent' = 0
    /\ UNCHANGED <<kind, cur, sleeps>>
    /\ UNCHANGED <<ended, built>>
    /\ UNCHANGED storeVars

\* get_subscription_request(); grpc_client.subscribe(once(request)) fails.
\* The one-element outbound stream was consumed by the transport or not.
SubscribeFail ==
    /\ pc = "subscribe"
    /\ sessBuilt' = sessBuilt + 1
    /\ \E n \in {0, 1} : sessSent' = sessSent + n
    /\ pc' = "check"
    /\ sessEnd' = "subfail"
    /\ UNCHANGED <<kind, attempt, cur, received, handled, connects, connOk, sleeps>>
    /\ ended' = ended + 1
    /\ built' = built + 1
    /\ UNCHANGED storeVars

SubscribeOk_twice ==
    /\ pc = "subscribe"
    /\ sessBuilt' = sessBuilt + 1
    /\ sessSent' = sessSent + 2
    /\ pc' = "recv"
    /\ UNCHANGED <<kind, attempt, cur, received, handled, connects, connOk, sleeps,
                   sessEnd>>
    /\ built' = built + 1
    /\ UNCHANGED <<ended>>
    /\ UNCHANGED storeVars

\* get_subscription_request(); grpc_client.subscribe(once(request)) succeeds.
SubscribeOk ==
    /\ pc = "subscribe"
    /\ sessBuilt' = sessBuilt + 1
    /\ sessSent' = sessSent + 1
    /\ pc' = "recv"
    /\ UNCHANGED <<kind, attempt, cur, received, handled, connects, connOk, sleeps,
                   sessEnd>>
    /\ built' = built + 1
    /\ UNCHANGED <<ended>>
    /\ UNCHANGED storeVars

RecvUpdate_async ==
    /\ pc = "recv"
    /\ Len(received) < MaxMsgs
    /\ \E m \in Msgs :
        /\ HasVariant(m)
        /\ cur' = m
    /\ received' = Append(received, TRUE)
    /\ pc' = "recv"
    /\ UNCHANGED <<kind, attempt, handled, connects, connOk, sleeps, sessBuilt,
                   sessSent, sessEnd>>
    /\ UNCHANGED <<ended, built>>
    /\ UNCHANGED storeVars

\* response_stream.next() yields Some(Ok(update)) with update_oneof = Some(..):
\* handle_update is entered on this task.
RecvUpdate ==
    /\ pc = "recv"
    /\ Len(received) < MaxMsgs
    /\ \E m \in Msgs :
        /\ HasVariant(m)
        /\ cur' = m
    /\ received' = Append(received, TRUE)
    /\ pc' = "handle"
    /\ UNCHANGED <<kind, attempt, handled, connects, connOk, sleeps, sessBuilt,
                   sessSent, sessEnd>>
    /\ UNCHANGED <<ended, built>>
    /\ UNCHANGED storeVars

\* response_stream.next() yields Some(Ok(update)) with update_oneof = None.
RecvEmpty ==
    /\ pc = "recv"
    /\ Len(received) < MaxMsgs
    /\ received' = Append(received, FALSE)
    /\ pc' = "recv"
    /\ UNCHANGED <<kind, attempt, cur, handled, connects, connOk, sleeps, sessBuilt,
                   sessSent, sessEnd>>
    /\ UNCHANGED <<ended, built>>
    /\ UNCHANGED storeVars

RecvErr_stop ==
    /\ pc = "recv"
    /\ sessEnd' = "err"
    /\ pc' = "stopped"
    /\ UNCHANGED <<kind, attempt, cur, received, handled, connects, connOk, sleeps,
                   sessBuilt, sessSent>>
    /\ ended' = ended + 1
    /\ UNCHANGED <<built>>
    /\ UNCHANGED storeVars

\* response_stream.next() yields Some(Err(e)): break.
RecvErr ==
    /\ pc = "recv"
    /\ sessEnd' = "err"
    /\ pc' = "check"
    /\ UNCHANGED <<kind, attempt, cur, received, handled, connects, connOk, sleeps,
                   sessBuilt, sessSent>>
    /\ ended' = ended + 1
    /\ UNCHANGED <<built>>
    /\ UNCHANGED storeVars

RecvEnd_reset ==
    /\ pc = "recv"
    /\ sessEnd' = "eof"
    /\ pc' = "check"
    /\ attempt' = IF Len(handled) > 0 THEN 0 ELSE attempt
    /\ UNCHANGED <<kind, cur, received, handled, connects, connOk, sleeps,
                   sessBuilt, sessSent>>
    /\ ended' = ended + 1
    /\ UNCHANGED <<built>>
    /\ UNCHANGED storeVars

\* response_stream.next() yields None: the while-let loop ends.
RecvEnd ==
    /\ pc = "recv"
    /\ sessEnd' = "eof"
    /\ pc' = "check"
    /\ UNCHANGED <<kind, attempt, cur, received, handled, connects, connOk, sleeps,
                   sessBuilt, sessSent>>
    /\ ended' = ended + 1
    /\ UNCHANGED <<built>>
    /\ UNCHANGED storeVars

\* self.handle_update(update_oneof) returns; the loop takes the next message.
HandleReturn ==
    /\ pc = "handle"
    /\ "return" \in HandlerOutcomes(kind, cur)
    /\ handled' = Append(handled, Len(received))
    /\ cur' = NoMsg
    /\ pc' = "recv"
    /\ UNCHANGED <<kind, attempt, received, connects, connOk, sleeps, sessBuilt,
                   sessSent, sessEnd>>
    /\ UNCHANGED <<ended, built>>
    /\ UNCHANGED storeVars

\* self.handle_update(update_oneof) panics: the unwind leaves start().
HandlePanic ==
    /\ pc = "handle"
    /\ "panic" \in HandlerOutcomes(kind, cur)
    /\ pc' = "panicked"
    /\ UNCHANGED <<kind, attempt, cur, received, handled, connects, connOk, sleeps,
                   sessBuilt, sessSent, sessEnd>>
    /\ UNCHANGED <<ended, built>>
    /\ UNCHANGED storeVars

\* self.handle_update(update_oneof) reads outside the buffer and faults.
HandleCrash ==
    /\ pc = "handle"
    /\ "crash" \in HandlerOutcomes(kind, cur)
    /\ pc' = "crashed"
    /\ UNCHANGED <<kind, attempt, cur, received, handled, connects, connOk, sleeps,
                   sessBuilt, sessSent, sessEnd>>
    /\ UNCHANGED <<ended, built>>
    /\ UNCHANGED storeVars

GiveUp_retry ==
    /\ pc = "check"
    /\ Exhausted(attempt)
    /\ pc' = "sleep"
    /\ UNCHANGED <<kind, attempt, cur, received, handled, connects, connOk, sleeps,
                   sessBuilt, sessSent, sessEnd>>
    /\ UNCHANGED <<ended, built>>
    /\ UNCHANGED storeVars

\* if attempt >= max_retries { error!(..); break; }
GiveUp ==
    /\ pc = "check"
    /\ Exhausted(attempt)
    /\ pc' = "stopped"
    /\ UNCHANGED <<kind, attempt, cur, received, handled, connects, connOk, sleeps,
                   sessBuilt, sessSent, sessEnd>>
    /\ UNCHANGED <<ended, built>>
    /\ UNCHANGED storeVars

\* warn!(..); tokio::time::sleep(retry_delay) is entered.
Backoff ==
    /\ pc = "check"
    /\ ~Exhausted(attempt)
    /\ sleeps' = sleeps + 1
    /\ pc' = "sleep"
    /\ UNCHANGED <<kind, attempt, cur, received, handled, connects, connOk,
                   sessBuilt, sessSent, sessEnd>>
    /\ UNCHANGED <<ended, built>>
    /\ UNCHANGED storeVars

\* tokio::time::sleep(retry_delay).await completes: back to the loop's top.
WakeUp ==
    /\ pc = "sleep"
    /\ pc' = "connect"
    /\ UNCHANGED <<kind, attempt, cur, received, handled, connects, connOk, sleeps,
                   sessBuilt, sessSent, sessEnd>>
    /\ UNCHANGED <<ended, built>>
    /\ UNCHANGED storeVars

(***************************************************************************)
(* Reserve synchronization store: ReserveListener.                         *)
(***************************************************************************)
AmountVals == 0 .. MaxAmount

\* A Pool value (crate::pool::Pool, by the fields the listener reads).
PoolValue(id, bv, qv, ma, mb, ra, rb) ==
    [pool_id |-> id, base_vault |-> bv, quote_vault |-> qv, mint_a |-> ma,
     mint_b |-> mb, mint_a_reserve |-> ra, mint_b_reserve |-> rb]

\* MintPair::new(mint_a, mint_b)
MintPair(ma, mb) == {ma, mb}

\* The pools of the registry: P1 and P2 trade the same pair on the listener's
\* dex, P3 is a pool of another pair on another dex.
RegistryPools(r) ==
    {PoolValue("P1", "A1", "B1", "X", "Y", r[1], r[2]),
     PoolValue("P2", "A2", "B2", "X", "Y", r[2], r[1]),
     PoolValue("P3", "A3", "B3", "X", "Z", r[1], r[1])}

\* pools_by_mints.get_active_pools(dex): the ids of the listener's dex.
ActiveIds == {"P1"}

\* Reserves the registry holds at startup: a warm-up pool and a funded one.
StartReserves == {<<0, 0>>, <<1, 2>>}

AllVaults == {"A1", "B1", "A2", "B2", "A3", "B3"}

\* constants::KOLIBRI_ENABLED
KOLIBRI_ENABLED == FALSE

NoObs == [vault |-> "-", how |-> "none", fired |-> FALSE,
                pct |-> [k |-> "nan"], amount |-> 0]

\* ReserveListener::new
ReserveInitWith(ids, r) ==
        LET reg == RegistryPools(r)
            active_pools == {p \in reg : p.pool_id \in ids}
        IN  /\ pools_by_mints =
                [mp \in {MintPair(p.mint_a, p.mint_b) : p \in reg} |->
                    {p \in reg : MintPair(p.mint_a, p.mint_b) = mp}]
            /\ pool = [id \in {p.pool_id : p \in active_pools} |->
                          CHOOSE p \in active_pools : p.pool_id = id]
            /\ vault_to_pool_map =
                [v \in {p.base_vault : p \in active_pools}
                       \cup {p.quote_vault : p \in active_pools} |->
                    (CHOOSE p \in active_pools :
                        v \in {p.base_vault, p.quote_vault}).pool_id]
            /\ last_updated =
                [v \in {p.base_vault : p \in active_pools}
                       \cup {p.quote_vault : p \in active_pools} |-> FALSE]
            /\ evals = <<>>
            /\ task = "running"
            /\ fresh = [id \in {p.pool_id : p \in active_pools} |-> {}]
            /\ obs = NoObs
            /\ nupd = 0

ReserveInit == \E r \in StartReserves : ReserveInitWith(ActiveIds, r)

\* f64 arithmetic on exact values: a / b of two non-negative numbers.
FDiv(a, b) ==
    IF b = 0 THEN (IF a = 0 THEN [k |-> "nan"] ELSE [k |-> "inf"])
    ELSE [k |-> "fin", num |-> a, den |-> b]

price_change_pct_guarded(old_a, old_b, new_a, new_b) ==
    IF old_a = 0 \/ old_b = 0 \/ new_a = 0 THEN [k |-> "fin", num |-> 0, den |-> 1]
    ELSE [k |-> "fin", num |-> (new_b * old_a - old_b * new_a) * 100,
          den |-> new_a * old_b]

price_change_pct_ratio(old_a, old_b, new_a, new_b) ==
    LET old_price == FDiv(old_b, old_a)
        new_price == FDiv(new_b, new_a)
    IN  IF old_price.k = "nan" \/ new_price.k = "nan" THEN [k |-> "nan"]
        ELSE IF old_price.k = "inf" THEN [k |-> "nan"]
        ELSE IF new_price.k = "inf" THEN [k |-> "inf"]
        ELSE LET dnum == new_price.num * old_price.den
                         - old_price.num * new_price.den
             IN  IF old_price.num = 0
                 THEN (IF dnum = 0 THEN [k |-> "nan"]
                       ELSE IF dnum > 0 THEN [k |-> "inf"]
                       ELSE [k |-> "-inf"])
                 ELSE [k |-> "fin", num |-> dnum,
                       den |-> new_price.den * old_price.num]

\* ((new_price - old_price) / old_price) * 100.0 with
\* old_price = old_b / old_a and new_price = new_b / new_a
price_change_pct(old_a, old_b, new_a, new_b) ==
    LET old_price == FDiv(old_b, old_a)
        new_price == FDiv(new_b, new_a)
    IN  IF old_price.k = "nan" \/ new_price.k = "nan" THEN [k |-> "nan"]
        ELSE IF old_price.k = "inf" THEN [k |-> "nan"]
        ELSE IF new_price.k = "inf" THEN [k |-> "inf"]
        ELSE LET dnum == new_price.num * old_price.den
                         - old_price.num * new_price.den
             IN  IF old_price.num = 0
                 THEN (IF dnum = 0 THEN [k |-> "nan"]
                       ELSE IF dnum > 0 THEN [k |-> "inf"]
                       ELSE [k |-> "-inf"])
                 ELSE [k |-> "fin", num |-> dnum * 100,
                       den |-> new_price.den * old_price.num]

ApplyAmount_both(p, v, amount) ==
    IF v \in {p.base_vault, p.quote_vault}
    THEN [p EXCEPT !.mint_a_reserve = amount, !.mint_b_reserve = amount]
    ELSE p

\* if pool_lock.base_vault == vault_pubkey { mint_a_reserve = amount }
\* else if pool_lock.quote_vault == vault_pubkey { mint_b_reserve = amount }
ApplyAmount(p, v, amount) ==
    IF p.base_vault = v THEN [p EXCEPT !.mint_a_reserve = amount]
    ELSE IF p.quote_vault = v THEN [p EXCEPT !.mint_b_reserve = amount]
    ELSE p

BothUpdated_either(lu, p) == lu[p.base_vault] \/ lu[p.quote_vault]

\* base_updated && quote_updated
BothUpdated(lu, p) == lu[p.base_vault] /\ lu[p.quote_vault]

ResetFlags_none(lu, p) == lu

ResetFlags_remove(lu, p) ==
    [v \in DOMAIN lu \ {p.base_vault, p.quote_vault} |-> lu[v]]

ResetFlags_all(lu, p) == [v \in DOMAIN lu |-> FALSE]

\* last_updated.insert(base_vault, false); insert(quote_vault, false)
ResetFlags(lu, p) ==
    [v \in DOMAIN lu \cup {p.base_vault, p.quote_vault} |->
        IF v \in {p.base_vault, p.quote_vault} THEN FALSE ELSE lu[v]]

\* last_updated.insert(vault_pubkey, true)
SetFlag(lu, v) ==
    [w \in DOMAIN lu \cup {v} |-> IF w = v THEN TRUE ELSE lu[w]]

EvalTask_stale(pool_copy, pct) ==
    [pools_copy |-> pools_by_mints[MintPair(pool_copy.mint_a, pool_copy.mint_b)],
     pool_copy |-> pool[vault_to_pool_map[pool_copy.base_vault]],
     price_change_pct |-> pct]

EvalTask_self(pool_copy, pct) ==
    [pools_copy |-> {pool_copy},
     pool_copy |-> pool_copy,
     price_change_pct |-> pct]

EvalTask_synced(pool_copy, pct) ==
    [pools_copy |->
        {p \in pools_by_mints[MintPair(pool_copy.mint_a, pool_copy.mint_b)] :
            p.pool_id # pool_copy.pool_id} \cup {pool_copy},
     pool_copy |-> pool_copy,
     price_change_pct |-> pct]

\* The task tokio::spawn starts on a settlement.
EvalTask(pool_copy, pct) ==
    [pools_copy |-> pools_by_mints[MintPair(pool_copy.mint_a, pool_copy.mint_b)],
     pool_copy |-> pool_copy,
     price_change_pct |-> pct]

\* The body of ReserveListener::handle_update for an account update of a
\* vault of the index that carries `amount` at offset 64.
ApplyVaultUpdate(v, amount, how) ==
    LET id == vault_to_pool_map[v]
        old == pool[id]
        pool_copy == ApplyAmount(old, v, amount)
        pct == price_change_pct(old.mint_a_reserve, old.mint_b_reserve,
                                pool_copy.mint_a_reserve, pool_copy.mint_b_reserve)
        flagged == SetFlag(last_updated, v)
        fire == BothUpdated(flagged, pool_copy)
    IN  /\ pool' = [pool EXCEPT ![id] = pool_copy]
        /\ last_updated' = IF fire THEN ResetFlags(flagged, pool_copy) ELSE flagged
        /\ evals' = IF fire /\ ~KOLIBRI_ENABLED
                    THEN Append(evals, EvalTask(pool_copy, pct))
                    ELSE evals
        /\ fresh' = [fresh EXCEPT ![id] = IF fire THEN {} ELSE @ \cup {v}]
        /\ obs' = [vault |-> v, how |-> how, fired |-> fire, pct |-> pct,
                   amount |-> amount]
        /\ nupd' = nupd + 1
        /\ UNCHANGED <<pools_by_mints, vault_to_pool_map, task>>

HandleUpdate_await ==
    /\ task = "running"
    /\ nupd < MaxUpdates
    /\ evals = <<>>
    /\ \E v \in DOMAIN vault_to_pool_map, amount \in AmountVals :
        ApplyVaultUpdate(v, amount, "applied")
    /\ UNCHANGED <<driverVars, concVars, priceVars, auxVars>>

\* handle_update on an account update of a tracked vault with full data.
HandleUpdate ==
    /\ task = "running"
    /\ nupd < MaxUpdates
    /\ \E v \in DOMAIN vault_to_pool_map, amount \in AmountVals :
        ApplyVaultUpdate(v, amount, "applied")
    /\ UNCHANGED <<driverVars, concVars, priceVars, auxVars>>

\* handle_update on an account update of a tracked vault whose data is shorter
\* than 72 bytes: *amount_ptr reads past the buffer and yields any value.
HandleShortGarbage ==
    /\ task = "running"
    /\ nupd < MaxUpdates
    /\ \E v \in DOMAIN vault_to_pool_map, amount \in AmountVals :
        ApplyVaultUpdate(v, amount, "short")
    /\ UNCHANGED <<driverVars, concVars, priceVars, auxVars>>

\* The same read faults instead.
HandleShortCrash ==
    /\ task = "running"
    /\ nupd < MaxUpdates
    /\ \E v \in DOMAIN vault_to_pool_map :
        obs' = [vault |-> v, how |-> "crash", fired |-> FALSE,
                pct |-> [k |-> "nan"], amount |-> 0]
    /\ task' = "crashed"
    /\ nupd' = nupd + 1
    /\ UNCHANGED <<pools_by_mints, pool, vault_to_pool_map, last_updated, evals,
                   fresh>>
    /\ UNCHANGED <<driverVars, concVars, priceVars, auxVars>>

HandleUntracked_ignore ==
    /\ task = "running"
    /\ nupd < MaxUpdates
    /\ \E v \in AllVaults \ DOMAIN vault_to_pool_map :
        obs' = [vault |-> v, how |-> "ignored", fired |-> FALSE,
                pct |-> [k |-> "nan"], amount |-> 0]
    /\ nupd' = nupd + 1
    /\ UNCHANGED <<pools_by_mints, pool, vault_to_pool_map, last_updated, evals,
                   fresh, task>>
    /\ UNCHANGED <<driverVars, concVars, priceVars, auxVars>>

\* handle_update on an account update of a vault that is not in the index:
\* vault_to_pool_map.get_mut(&vault_pubkey).unwrap() panics.
HandleUntracked ==
    /\ task = "running"
    /\ nupd < MaxUpdates
    /\ \E v \in AllVaults \ DOMAIN vault_to_pool_map :
        obs' = [vault |-> v, how |-> "panic", fired |-> FALSE,
                pct |-> [k |-> "nan"], amount |-> 0]
    /\ task' = "panicked"
    /\ nupd' = nupd + 1
    /\ UNCHANGED <<pools_by_mints, pool, vault_to_pool_map, last_updated, evals,
                   fresh>>
    /\ UNCHANGED <<driverVars, concVars, priceVars, auxVars>>

\* handle_update on an update that is no account update: the if-let fails.
HandleOther ==
    /\ task = "running"
    /\ nupd < MaxUpdates
    /\ obs' = [vault |-> "-", how |-> "skipped", fired |-> FALSE,
                pct |-> [k |-> "nan"], amount |-> 0]
    /\ nupd' = nupd + 1
    /\ UNCHANGED <<pools_by_mints, pool, vault_to_pool_map, last_updated, evals,
                   fresh, task>>
    /\ UNCHANGED <<driverVars, concVars, priceVars, auxVars>>

\* A spawned check_arbitrage_opportunities task finishes.
EvalDone ==
    /\ \E i \in 1 .. Len(evals) :
        evals' = [j \in 1 .. Len(evals) - 1 |->
                     IF j < i THEN evals[j] ELSE evals[j + 1]]
    /\ UNCHANGED <<pools_by_mints, pool, vault_to_pool_map, last_updated, fresh,
                   task, obs, nupd>>
    /\ UNCHANGED <<driverVars, concVars, priceVars, auxVars>>

\* Reserves and amounts of the documented example: base 1000, quote 2000, then
\* the base vault is updated to 1100 and the quote vault to 2150.
ExampleReserves == <<1000, 2000>>

ExampleAmounts == {1100, 2150}

\* handle_update on an account update of a tracked vault that carries one of
\* the example's amounts.
ExampleUpdate ==
    /\ task = "running"
    /\ nupd < MaxUpdates
    /\ \E v \in DOMAIN vault_to_pool_map, amount \in ExampleAmounts :
        ApplyVaultUpdate(v, amount, "applied")
    /\ UNCHANGED <<driverVars, concVars, priceVars, auxVars>>

ExampleNext ==
    \/ ExampleUpdate
    \/ EvalDone

\* pools_by_mints.get_active_pools(dex) of a dex with two pools.
PairIds == {"P1", "P2"}

\* handle_update of a listener of two pools, on an account update of a tracked
\* vault with full data.
PairUpdate ==
    /\ task = "running"
    /\ nupd < MaxPairUpdates
    /\ \E v \in DOMAIN vault_to_pool_map, amount \in AmountVals :
        ApplyVaultUpdate(v, amount, "applied")
    /\ UNCHANGED <<driverVars, concVars, priceVars, auxVars>>

PairNext ==
    \/ PairUpdate
    \/ EvalDone

ReserveNext ==
    \/ HandleUpdate
    \/ HandleShortGarbage
    \/ HandleShortCrash
    \/ HandleUntracked
    \/ HandleOther
    \/ EvalDone


(***************************************************************************)
(* ReserveListener::handle_update statement by statement, for callers on   *)
(* several threads.                                                        *)
(***************************************************************************)
Threads == {1, 2}

Shards == {1, 2}

NoPool == PoolValue("-", "-", "-", "-", "-", 0, 0)

IdleThread ==
    [pc |-> "idle", vault |-> "-", amount |-> 0, pool_copy |-> NoPool,
     pct |-> [k |-> "nan"], base_updated |-> FALSE, quote_updated |-> FALSE]

\* DashMap places a key in the shard its hash selects: the two vaults of a
\* pool share a shard or do not.
ShardMaps(vs) == {[v \in vs |-> 1], [v \in vs |-> IF v \in {"A1", "A2"} THEN 1 ELSE 2]}

ConcInitWith(shards) ==
    /\ thr = [t \in Threads |-> IdleThread]
    /\ shard_of = shards
    /\ shard_lock = [s \in Shards |-> 0]
    /\ pool_lock = [id \in DOMAIN pool |-> 0]
    /\ settled = 0
    /\ completed = [v \in DOMAIN vault_to_pool_map |-> 0]

ConcInit == \E m \in ShardMaps(DOMAIN vault_to_pool_map) : ConcInitWith(m)

\* No concurrent caller: the listener is driven by its one driver task.
ConcIdle == ConcInitWith([v \in DOMAIN vault_to_pool_map |-> 1])

\* handle_update is entered with an account update of a tracked vault; the
\* amount is read from the data.
Enter(t) ==
    /\ thr[t].pc = "idle"
    /\ nupd < MaxCalls
    /\ \E v \in DOMAIN vault_to_pool_map, amount \in AmountVals :
        thr' = [thr EXCEPT ![t] = [IdleThread EXCEPT !.pc = "get_mut",
                                       !.vault = v, !.amount = amount]]
    /\ nupd' = nupd + 1
    /\ UNCHANGED <<pools_by_mints, pool, vault_to_pool_map, last_updated, evals,
                   task, fresh, obs>>
    /\ UNCHANGED <<shard_of, shard_lock, pool_lock, settled, completed>>
    /\ UNCHANGED <<driverVars, priceVars, auxVars>>

\* let pool = self.vault_to_pool_map.get_mut(&vault_pubkey).unwrap();
GetMut(t) ==
    /\ thr[t].pc = "get_mut"
    /\ shard_lock[shard_of[thr[t].vault]] = 0
    /\ shard_lock' = [shard_lock EXCEPT ![shard_of[thr[t].vault]] = t]
    /\ thr' = [thr EXCEPT ![t].pc = "write_lock"]
    /\ UNCHANGED reserveVars
    /\ UNCHANGED <<shard_of, pool_lock, settled, completed>>
    /\ UNCHANGED <<driverVars, priceVars, auxVars>>

\* let mut pool_lock = pool.write()...unwrap();
WriteLock(t) ==
    /\ thr[t].pc = "write_lock"
    /\ pool_lock[vault_to_pool_map[thr[t].vault]] = 0
    /\ pool_lock' = [pool_lock EXCEPT ![vault_to_pool_map[thr[t].vault]] = t]
    /\ thr' = [thr EXCEPT ![t].pc = "update"]
    /\ UNCHANGED reserveVars
    /\ UNCHANGED <<shard_of, shard_lock, settled, completed>>
    /\ UNCHANGED <<driverVars, priceVars, auxVars>>

\* Under the write guard: the old amounts are read, the reserve is written,
\* the price change is computed and the pool is cloned.
UpdateLocked(t) ==
    /\ thr[t].pc = "update"
    /\ LET id == vault_to_pool_map[thr[t].vault]
           old == pool[id]
           new == ApplyAmount(old, thr[t].vault, thr[t].amount)
       IN  /\ pool' = [pool EXCEPT ![id] = new]
           /\ thr' = [thr EXCEPT ![t].pc = "unlock",
                                 ![t].pool_copy = new,
                                 ![t].pct = price_change_pct(
                                     old.mint_a_reserve, old.mint_b_reserve,
                                     new.mint_a_reserve, new.mint_b_reserve)]
    /\ UNCHANGED <<pools_by_mints, vault_to_pool_map, last_updated, evals, task,
                   fresh, obs, nupd>>
    /\ UNCHANGED <<shard_of, shard_lock, pool_lock, settled, completed>>
    /\ UNCHANGED <<driverVars, priceVars, auxVars>>

Unlock_keep(t) ==
    /\ thr[t].pc = "unlock"
    /\ thr' = [thr EXCEPT ![t].pc = "set_flag"]
    /\ UNCHANGED reserveVars
    /\ UNCHANGED <<shard_of, shard_lock, pool_lock, settled, completed>>
    /\ UNCHANGED <<driverVars, priceVars, auxVars>>

Unlock_both(t) ==
    /\ thr[t].pc = "unlock"
    /\ pool_lock' = [pool_lock EXCEPT ![vault_to_pool_map[thr[t].vault]] = 0]
    /\ shard_lock' = [shard_lock EXCEPT ![shard_of[thr[t].vault]] = 0]
    /\ thr' = [thr EXCEPT ![t].pc = "set_flag"]
    /\ UNCHANGED reserveVars
    /\ UNCHANGED <<shard_of, settled, completed>>
    /\ UNCHANGED <<driverVars, priceVars, auxVars>>

\* }; // Lock is released here
Unlock(t) ==
    /\ thr[t].pc = "unlock"
    /\ pool_lock' = [pool_lock EXCEPT ![vault_to_pool_map[thr[t].vault]] = 0]
    /\ thr' = [thr EXCEPT ![t].pc = "set_flag"]
    /\ UNCHANGED reserveVars
    /\ UNCHANGED <<shard_of, shard_lock, settled, completed>>
    /\ UNCHANGED <<driverVars, priceVars, auxVars>>

\* self.last_updated.insert(vault_pubkey, true);
InsertFlag(t) ==
    /\ thr[t].pc = "set_flag"
    /\ last_updated' = SetFlag(last_updated, thr[t].vault)
    /\ thr' = [thr EXCEPT ![t].pc = "get_base"]
    /\ UNCHANGED <<pools_by_mints, pool, vault_to_pool_map, evals, task, fresh,
                   obs, nupd>>
    /\ UNCHANGED <<shard_of, shard_lock, pool_lock, settled, completed>>
    /\ UNCHANGED <<driverVars, priceVars, auxVars>>

\* let base_updated = *self.last_updated.get(&pool_copy.base_vault).unwrap();
GetBase(t) ==
    /\ thr[t].pc = "get_base"
    /\ thr' = [thr EXCEPT ![t].pc = "get_quote",
                          ![t].base_updated =
                              last_updated[thr[t].pool_copy.base_vault]]
    /\ UNCHANGED reserveVars
    /\ UNCHANGED <<shard_of, shard_lock, pool_lock, settled, completed>>
    /\ UNCHANGED <<driverVars, priceVars, auxVars>>

\* let quote_updated = *self.last_updated.get(&pool_copy.quote_vault).unwrap();
\* if base_updated && quote_updated { .. }
GetQuote(t) ==
    /\ thr[t].pc = "get_quote"
    /\ LET q == last_updated[thr[t].pool_copy.quote_vault]
       IN  thr' = [thr EXCEPT ![t].quote_updated = q,
                              ![t].pc = IF thr[t].base_updated /\ q
                                        THEN "reset_base" ELSE "return"]
    /\ UNCHANGED reserveVars
    /\ UNCHANGED <<shard_of, shard_lock, pool_lock, settled, completed>>
    /\ UNCHANGED <<driverVars, priceVars, auxVars>>

\* self.last_updated.insert(pool_copy.base_vault, false);
ResetBase(t) ==
    /\ thr[t].pc = "reset_base"
    /\ last_updated' = [last_updated EXCEPT ![thr[t].pool_copy.base_vault] = FALSE]
    /\ thr' = [thr EXCEPT ![t].pc = "reset_quote"]
    /\ UNCHANGED <<pools_by_mints, pool, vault_to_pool_map, evals, task, fresh,
                   obs, nupd>>
    /\ UNCHANGED <<shard_of, shard_lock, pool_lock, settled, completed>>
    /\ UNCHANGED <<driverVars, priceVars, auxVars>>

\* self.last_updated.insert(pool_copy.quote_vault, false);
ResetQuote(t) ==
    /\ thr[t].pc = "reset_quote"
    /\ last_updated' = [last_updated EXCEPT ![thr[t].pool_copy.quote_vault] = FALSE]
    /\ thr' = [thr EXCEPT ![t].pc = "spawn"]
    /\ UNCHANGED <<pools_by_mints, pool, vault_to_pool_map, evals, task, fresh,
                   obs, nupd>>
    /\ UNCHANGED <<shard_of, shard_lock, pool_lock, settled, completed>>
    /\ UNCHANGED <<driverVars, priceVars, auxVars>>

\* let all_pair_pools = self.pools_by_mints.get(&mint_pair).unwrap();
\* if constants::KOLIBRI_ENABLED == false { tokio::spawn(..) }
Spawn(t) ==
    /\ thr[t].pc = "spawn"
    /\ evals' = IF ~KOLIBRI_ENABLED
                THEN Append(evals, EvalTask(thr[t].pool_copy, thr[t].pct))
                ELSE evals
    /\ settled' = settled + 1
    /\ thr' = [thr EXCEPT ![t].pc = "return"]
    /\ UNCHANGED <<pools_by_mints, pool, vault_to_pool_map, last_updated, task,
                   fresh, obs, nupd>>
    /\ UNCHANGED <<shard_of, shard_lock, pool_lock, completed>>
    /\ UNCHANGED <<driverVars, priceVars, auxVars>>

\* handle_update returns: the RefMut `pool` goes out of scope.
Return(t) ==
    /\ thr[t].pc = "return"
    /\ shard_lock' = [shard_lock EXCEPT ![shard_of[thr[t].vault]] = 0]
    /\ completed' = [completed EXCEPT ![thr[t].vault] = @ + 1]
    /\ thr' = [thr EXCEPT ![t] = IdleThread]
    /\ UNCHANGED reserveVars
    /\ UNCHANGED <<shard_of, pool_lock, settled>>
    /\ UNCHANGED <<driverVars, priceVars, auxVars>>

\* A spawned check_arbitrage_opportunities task finishes.
EvalDoneConc ==
    /\ \E i \in 1 .. Len(evals) :
        evals' = [j \in 1 .. Len(evals) - 1 |->
                     IF j < i THEN evals[j] ELSE evals[j + 1]]
    /\ UNCHANGED <<pools_by_mints, pool, vault_to_pool_map, last_updated, fresh,
                   task, obs, nupd>>
    /\ UNCHANGED <<driverVars, concVars, priceVars, auxVars>>

ConcNext ==
    \/ \E t \in Threads : Enter(t)
    \/ \E t \in Threads : GetMut(t)
    \/ \E t \in Threads : WriteLock(t)
    \/ \E t \in Threads : UpdateLocked(t)
    \/ \E t \in Threads : Unlock(t)
    \/ \E t \in Threads : InsertFlag(t)
    \/ \E t \in Threads : GetBase(t)
    \/ \E t \in Threads : GetQuote(t)
    \/ \E t \in Threads : ResetBase(t)
    \/ \E t \in Threads : ResetQuote(t)
    \/ \E t \in Threads : Spawn(t)
    \/ \E t \in Threads : Return(t)
    \/ EvalDoneConc


(***************************************************************************)
(* Oracle price store: PriceListener::handle_update and                    *)
(* parse_real_pyth_price_account.                                          *)
(***************************************************************************)
\* if data.len() < 240
MinLen == 240

\* price < 10_000_000.0
SanityMax == 10000000

\* (old - price_info.price).abs() > 0.001, as 1 / ThresholdDen
ThresholdDen == 1000

\* PriceListener.account_to_mint: price account -> mint
account_to_mint == [a \in {"H6AR", "Gnt2"} |-> IF a = "H6AR" THEN "So11" ELSE "EPjF"]

\* Accounts an update can name: the listener's and one it does not know.
PriceAccounts == DOMAIN account_to_mint \cup {"Other"}

PriceMints == {account_to_mint[a] : a \in DOMAIN account_to_mint}

get_token_symbol(mint) ==
    CASE mint = "So11" -> "SOL"
      [] mint = "EPjF" -> "USDC"
      [] OTHER -> "UNKNOWN"

\* Account data by what the parser reads of it: its length and the fields at
\* offsets 232 (status, u32), 208 (price, i64), 216 (exponent, i32) and
\* 224 (confidence, u64).
PriceData ==
    [len : {239, 240}, status : {1, 2}, price_raw : {-1, 0, 1, 2},
     expo : {-3, 4, 7}, conf_raw : {3}]

RECURSIVE Pow10(_)
Pow10(n) == IF n = 0 THEN 1 ELSE 10 * Pow10(n - 1)

\* (raw as f64) * 10f64.powi(expo), as an exact fraction
Scaled(raw, expo) ==
    IF expo >= 0 THEN [num |-> raw * Pow10(expo), den |-> 1]
    ELSE [num |-> raw, den |-> Pow10(0 - expo)]

Zero == [num |-> 0, den |-> 1]

\* No entry of PRICE_STATE under a mint.
NoPrice ==
    [mint |-> "-", symbol |-> "-", price |-> Zero, confidence |-> Zero,
     last_updated |-> 0, status |-> [fmt |-> "-"]]

None == [some |-> FALSE]

Some(v) == [some |-> TRUE, value |-> v]

TooSmall_offbyone(data) == data.len < MinLen - 1

\* if data.len() < 240 { return None; }
TooSmall(data) == data.len < MinLen

IsTrading_nonzero(status) == status # 0

IsTrading_once(status) == status = 1 /\ npr = 0

\* Status 1 = Trading: if status != 1 { .. } is not taken
IsTrading(status) == status = 1

InRange_inclusive(price) ==
    price.num > 0 /\ (price.num + price.den - 1) \div price.den <= SanityMax

InRange_nonzero(price) ==
    price.num # 0 /\ price.num \div price.den < SanityMax

\* if price > 0.0 && price < 10_000_000.0
InRange(price) == price.num > 0 /\ price.num \div price.den < SanityMax

parse_real_pyth_price_account_mantissa_first(data, mint, now) ==
    IF TooSmall(data) THEN None
    ELSE IF data.price_raw = 0 THEN None
    ELSE IF ~IsTrading(data.status)
    THEN Some([mint |-> mint, symbol |-> get_token_symbol(mint),
               price |-> Zero, confidence |-> Zero, last_updated |-> now,
               status |-> [fmt |-> "Non-Trading (status: {})",
                           arg |-> data.status]])
    ELSE LET price == Scaled(data.price_raw, data.expo)
             confidence == Scaled(data.conf_raw, data.expo)
         IN  IF InRange(price)
             THEN Some([mint |-> mint, symbol |-> get_token_symbol(mint),
                        price |-> price, confidence |-> confidence,
                        last_updated |-> now,
                        status |-> [fmt |-> "REAL Pyth Live"]])
             ELSE None

\* fn parse_real_pyth_price_account(data: &[u8], mint: &str) -> Option<TokenPrice>
\* with Utc::now() = now
parse_real_pyth_price_account(data, mint, now) ==
    IF TooSmall(data) THEN None
    ELSE IF ~IsTrading(data.status)
    THEN Some([mint |-> mint, symbol |-> get_token_symbol(mint),
               price |-> Zero, confidence |-> Zero, last_updated |-> now,
               status |-> [fmt |-> "Non-Trading (status: {})",
                           arg |-> data.status]])
    ELSE IF data.price_raw = 0 THEN None
    ELSE LET price == Scaled(data.price_raw, data.expo)
             confidence == Scaled(data.conf_raw, data.expo)
         IN  IF InRange(price)
             THEN Some([mint |-> mint, symbol |-> get_token_symbol(mint),
                        price |-> price, confidence |-> confidence,
                        last_updated |-> now,
                        status |-> [fmt |-> "REAL Pyth Live"]])
             ELSE None

AbsDiffOverThreshold_ge(a, b) ==
    LET d == a.num * b.den - b.num * a.den
        ad == IF d < 0 THEN 0 - d ELSE d
    IN  ad >= (a.den * b.den) \div ThresholdDen

\* |a - b| > 0.001 for two prices
AbsDiffOverThreshold(a, b) ==
    LET d == a.num * b.den - b.num * a.den
        ad == IF d < 0 THEN 0 - d ELSE d
    IN  ad > (a.den * b.den) \div ThresholdDen

StoreRecord_clear(state, mint, info) ==
    IF info.price.num = 0 THEN [state EXCEPT ![mint] = NoPrice]
    ELSE [state EXCEPT ![mint] = info]

\* let change = ((price_info.price - old) / old) * 100.0;
PctChange(old, new) ==
    IF old.num = 0 THEN [k |-> "inf"]
    ELSE [k |-> "fin",
          num |-> (new.num * old.den - old.num * new.den) * 100,
          den |-> new.den * old.num]

\* let arrow = if change > 0.0 { "UP" } else { "DOWN" };
Arrow(change) ==
    IF change.k = "inf" \/ (change.k = "fin" /\ change.num > 0) THEN "UP"
    ELSE "DOWN"

Notice_zero_first(old, info) ==
    IF old = NoPrice \/ old.price.num = 0 THEN [kind |-> "first"]
    ELSE IF AbsDiffOverThreshold(old.price, info.price)
    THEN [kind |-> "change",
          change |-> PctChange(old.price, info.price),
          arrow |-> Arrow(PctChange(old.price, info.price))]
    ELSE [kind |-> "silent"]

\* match old_price { Some(old) if (old - price).abs() > 0.001 => .., None => .., _ => {} }
Notice(old, info) ==
    IF old = NoPrice THEN [kind |-> "first"]
    ELSE IF AbsDiffOverThreshold(old.price, info.price)
    THEN [kind |-> "change",
          change |-> PctChange(old.price, info.price),
          arrow |-> Arrow(PctChange(old.price, info.price))]
    ELSE [kind |-> "silent"]

StoreRecord_gated(state, mint, info) ==
    IF Notice(state[mint], info).kind = "silent" THEN state
    ELSE [state EXCEPT ![mint] = info]

\* PRICE_STATE.insert(mint.clone(), price_info.clone())
StoreRecord(state, mint, info) == [state EXCEPT ![mint] = info]

NoData == [len |-> 0, status |-> 0, price_raw |-> 0, expo |-> 0, conf_raw |-> 0]

NoPriceObs ==
    [type |-> "none", key32 |-> TRUE, account |-> "-", data |-> NoData,
     result |-> "none", notice |-> [kind |-> "none"], warned |-> FALSE,
     again |-> FALSE]

PriceInit ==
    /\ PRICE_STATE = [m \in PriceMints |-> NoPrice]
    /\ pobs = NoPriceObs
    /\ npr = 0

\* PriceListener::handle_update on an account update of a price account of
\* the table.
HandlePriceUpdate ==
    /\ npr < MaxPriceUpdates
    /\ \E a \in DOMAIN account_to_mint, data \in PriceData :
        LET mint == account_to_mint[a]
            parsed == parse_real_pyth_price_account(data, mint, npr + 1)
        IN  IF parsed.some
            THEN /\ PRICE_STATE' = StoreRecord(PRICE_STATE, mint, parsed.value)
                 /\ pobs' = [type |-> "account", key32 |-> TRUE, account |-> a,
                             data |-> data, result |-> "stored",
                             notice |-> Notice(PRICE_STATE[mint], parsed.value),
                             warned |-> FALSE,
                             again |-> (pobs.account = a /\ pobs.data = data)]
            ELSE /\ PRICE_STATE' = PRICE_STATE
                 /\ pobs' = [type |-> "account", key32 |-> TRUE, account |-> a,
                             data |-> data, result |-> "rejected",
                             notice |-> [kind |-> "none"], warned |-> TRUE,
                             again |-> (pobs.account = a /\ pobs.data = data)]
    /\ npr' = npr + 1
    /\ UNCHANGED <<driverVars, reserveVars, concVars, auxVars>>

HandlePriceUnknown_store ==
    /\ npr < MaxPriceUpdates
    /\ \E key32 \in BOOLEAN, data \in PriceData :
        pobs' = [type |-> "account", key32 |-> key32, account |-> "Other",
                 data |-> data, result |-> "ignored",
                 notice |-> [kind |-> "none"], warned |-> FALSE,
                 again |-> FALSE]
    /\ npr' = npr + 1
    /\ PRICE_STATE' = [m \in PriceMints |-> NoPrice]
    /\ UNCHANGED <<driverVars, reserveVars, concVars, auxVars>>

\* PriceListener::handle_update on an account update whose pubkey has not 32
\* bytes, or names an account that is not in account_to_mint.
HandlePriceUnknown ==
    /\ npr < MaxPriceUpdates
    /\ \E key32 \in BOOLEAN, data \in PriceData :
        pobs' = [type |-> "account", key32 |-> key32, account |-> "Other",
                 data |-> data, result |-> "ignored",
                 notice |-> [kind |-> "none"], warned |-> FALSE,
                 again |-> FALSE]
    /\ npr' = npr + 1
    /\ UNCHANGED PRICE_STATE
    /\ UNCHANGED <<driverVars, reserveVars, concVars, auxVars>>

\* PriceListener::handle_update on an update that is no account update.
HandlePriceOther ==
    /\ npr < MaxPriceUpdates
    /\ pobs' = [NoPriceObs EXCEPT !.type = "other", !.result = "skipped"]
    /\ npr' = npr + 1
    /\ UNCHANGED PRICE_STATE
    /\ UNCHANGED <<driverVars, reserveVars, concVars, auxVars>>

PriceNext ==
    \/ HandlePriceUpdate
    \/ HandlePriceUnknown
    \/ HandlePriceOther

(***************************************************************************)
(* Sub-object cache: OrcaTickArrayListener::handle_update.                 *)
(***************************************************************************)
\* Keys an account update can carry; the handler does not look the key up in
\* tick_array_pubkeys.
TickKeys == {"T1", "T2", "T3"}

\* Account data by what the decode makes of it: whether it is a Borsh
\* encoding of a TickArray, and the array it encodes.
TickData == [decodes : BOOLEAN, start_tick_index : {0, 88}]

\* No entry of tick_arrays under a key.
NoTick == [absent |-> TRUE]

TickArray_try_from_slice_lenient(data) ==
    Some([start_tick_index |-> IF data.decodes THEN data.start_tick_index ELSE 0])

\* TickArray::try_from_slice(&account_info.data)
TickArray_try_from_slice(data) ==
    IF data.decodes THEN Some([start_tick_index |-> data.start_tick_index])
    ELSE None

\* self.tick_cache.tick_arrays.insert(tick_array_pubkey, tick_array)
InsertTick(cache, key, tick_array) == [cache EXCEPT ![key] = tick_array]

NoTickObs ==
    [type |-> "none", key32 |-> TRUE, key |-> "-",
     data |-> [decodes |-> FALSE, start_tick_index |-> 0], result |-> "none"]

TickInit ==
    /\ tick_arrays = [k \in TickKeys |-> NoTick]
    /\ tobs = NoTickObs
    /\ ntk = 0

\* Everything the tick-array handler leaves alone.
tickFrame == <<driverVars, reserveVars, concVars, priceVars, tipVars, subVars,
               instVars, mainVars>>

\* The body of the handler once tick_array_pubkey is read.
ApplyTickUpdate(key, key32, data) ==
    LET decoded == TickArray_try_from_slice(data)
    IN  /\ tick_arrays' = IF decoded.some
                          THEN InsertTick(tick_arrays, key, decoded.value)
                          ELSE tick_arrays
        /\ tobs' = [type |-> "account", key32 |-> key32, key |-> key,
                    data |-> data,
                    result |-> IF decoded.some THEN "stored" ELSE "dropped"]
        /\ ntk' = ntk + 1

\* handle_update on an account update with a 32-byte pubkey.
HandleTickUpdate ==
    /\ tobs.result # "crash"
    /\ ntk < MaxTickUpdates
    /\ \E key \in TickKeys, data \in TickData : ApplyTickUpdate(key, TRUE, data)
    /\ UNCHANGED tickFrame

\* handle_update on an account update whose pubkey has not 32 bytes:
\* try_into().unwrap_unchecked() yields some key.
HandleTickShortKey ==
    /\ tobs.result # "crash"
    /\ ntk < MaxTickUpdates
    /\ \E key \in TickKeys, data \in TickData : ApplyTickUpdate(key, FALSE, data)
    /\ UNCHANGED tickFrame

\* The same unchecked conversion faults instead.
HandleTickShortKeyCrash ==
    /\ tobs.result # "crash"
    /\ ntk < MaxTickUpdates
    /\ \E data \in TickData :
        tobs' = [type |-> "account", key32 |-> FALSE, key |-> "-",
                 data |-> data, result |-> "crash"]
    /\ ntk' = ntk + 1
    /\ UNCHANGED tick_arrays
    /\ UNCHANGED tickFrame

\* handle_update on an update that is no account update.
HandleTickOther ==
    /\ tobs.result # "crash"
    /\ ntk < MaxTickUpdates
    /\ tobs' = [NoTickObs EXCEPT !.type = "other", !.result = "skipped"]
    /\ ntk' = ntk + 1
    /\ UNCHANGED tick_arrays
    /\ UNCHANGED tickFrame

TickNext ==
    \/ HandleTickUpdate
    \/ HandleTickShortKey
    \/ HandleTickShortKeyCrash
    \/ HandleTickOther

(***************************************************************************)
(* Chain-tip state: BlockHashListener::handle_update and the readers of    *)
(* SHARED_STATE.                                                           *)
(***************************************************************************)
BlockHashes == {"h1", "h2", "h3"}

Slots == 0 .. MaxSlot

\* No entry of SHARED_STATE under the key ().
NoAppState == [absent |-> TRUE]

\* AppState::default()
DefaultAppState == [latest_block_hash |-> "", slot |-> 0]

SetTip_monotonic(old, new) ==
    IF old # NoAppState /\ new.slot < old.slot THEN old ELSE new

\* shared_state.insert((), AppState { latest_block_hash, slot })
SetTip(old, new) == new

\* get(): the latest value, or the zero-valued default before the first write
GetTip(state) == IF state = NoAppState THEN DefaultAppState ELSE state

NoBlockObs == [type |-> "none", blockhash |-> "", slot |-> 0]

TipInit ==
    /\ SHARED_STATE = NoAppState
    /\ tip_read = NoAppState
    /\ bobs = NoBlockObs
    /\ nblk = 0

\* Everything the block-hash handler and the readers leave alone.
tipFrame == <<driverVars, reserveVars, concVars, priceVars, tickVars, subVars,
              instVars, mainVars>>

\* handle_update on a block-metadata notification.
HandleBlockMeta ==
    /\ nblk < MaxBlocks
    /\ \E h \in BlockHashes, sl \in Slots :
        /\ SHARED_STATE' = SetTip(SHARED_STATE,
                                  [latest_block_hash |-> h, slot |-> sl])
        /\ bobs' = [type |-> "blockmeta", blockhash |-> h, slot |-> sl]
    /\ nblk' = nblk + 1
    /\ UNCHANGED tip_read
    /\ UNCHANGED tipFrame

\* handle_update on any other update: the if-let fails.
HandleBlockOther ==
    /\ nblk < MaxBlocks
    /\ bobs' = [NoBlockObs EXCEPT !.type = "other"]
    /\ nblk' = nblk + 1
    /\ UNCHANGED <<SHARED_STATE, tip_read>>
    /\ UNCHANGED tipFrame

\* A reader reads the chain tip.
ReadTip ==
    /\ tip_read # GetTip(SHARED_STATE)
    /\ tip_read' = GetTip(SHARED_STATE)
    /\ UNCHANGED <<SHARED_STATE, bobs, nblk>>
    /\ UNCHANGED tipFrame

TipNext ==
    \/ HandleBlockMeta
    \/ HandleBlockOther
    \/ ReadTip

(***************************************************************************)
(* Subscription descriptors: what a listener asks the feed for, and which  *)
(* account updates the feed then hands to its handler.                     *)
(***************************************************************************)
\* constants::TOKEN_PROGRAM_ID
TOKEN_PROGRAM_ID == "token"

ChainKeys == {"K1", "K2", "K3"}

\* The accounts of the chain the feed reports on: a key and its owning program.
ChainAccounts == [key : ChainKeys, owner : {TOKEN_PROGRAM_ID, "other"}]

\* The listeners that subscribe to accounts: a ReserveListener of a dex other
\* than Orca, a ReserveListener of Orca, a PriceListener.
SubKinds == {"reserve", "reserve_orca", "price"}

\* ReserveListener::new: the vaults of the active pools that are not Orca pools.
reserve_keys(lk, active) == IF lk = "reserve_orca" THEN {} ELSE active

\* The accounts map of the request get_accounts_subscribe_request builds:
\* one filter, the explicit keys and the token program as owner.
get_accounts_subscribe_request(keys) ==
    {[account |-> keys, owner |-> {TOKEN_PROGRAM_ID}]}

\* The accounts map of the request PriceListener::get_subscription_request builds.
price_subscription_request(price_accounts) ==
    IF price_accounts = {} THEN {}
    ELSE {[account |-> price_accounts, owner |-> {}]}

\* The account list a listener puts in its descriptor.
WatchList(lk, active) ==
    IF lk = "price" THEN active ELSE reserve_keys(lk, active)

\* get_subscription_request of the listener.
get_subscription_request(lk, active) ==
    IF lk = "price" THEN price_subscription_request(active)
    ELSE get_accounts_subscribe_request(reserve_keys(lk, active))

\* One account filter of a request: its fields are joined by AND, the values
\* of a field by OR, and an empty field constrains nothing.
FilterMatches(f, a) ==
    /\ f.account = {} \/ a.key \in f.account
    /\ f.owner = {} \/ a.owner \in f.owner

\* The feed delivers an account that some filter of the request matches.
Matches(filters, a) == \E f \in filters : FilterMatches(f, a)

NoDesc == [sent |-> FALSE, filters |-> {}]

NoAccount == [key |-> "-", owner |-> "-"]

\* A listener of any kind, built over any set of active vaults or known
\* oracle accounts, before it subscribes.
SubInit ==
    /\ sub_kind \in SubKinds
    /\ watch \in SUBSET ChainKeys
    /\ desc = NoDesc
    /\ sub_pc = "build"
    /\ invoked = 0
    /\ sobs = NoAccount

\* The groups not in play keep one value.
SubIdle ==
    /\ sub_kind = "price"
    /\ watch = {}
    /\ desc = NoDesc
    /\ sub_pc = "build"
    /\ invoked = 0
    /\ sobs = NoAccount

\* Everything the subscription steps leave alone.
subFrame == <<driverVars, reserveVars, concVars, priceVars, tickVars, tipVars,
              instVars, mainVars>>

\* The driver sends the listener's request.
SendRequest ==
    /\ sub_pc = "build"
    /\ desc' = [sent |-> TRUE,
                filters |-> get_subscription_request(sub_kind, watch)]
    /\ sub_pc' = "stream"
    /\ UNCHANGED <<sub_kind, watch, invoked, sobs>>
    /\ UNCHANGED subFrame

\* The feed delivers an account the request matches and the handler runs on
\* it; what a tracked account does to the stores is HandleUpdate and
\* HandlePriceUpdate.  The handler returns.
DeliverHandled ==
    /\ sub_pc = "stream"
    /\ invoked < MaxDeliveries
    /\ \E a \in ChainAccounts :
        /\ Matches(desc.filters, a)
        /\ sub_kind = "price" \/ a.key \in watch
        /\ sobs' = a
    /\ invoked' = invoked + 1
    /\ UNCHANGED <<sub_kind, watch, desc, sub_pc>>
    /\ UNCHANGED subFrame

\* The feed delivers an account the request matches and the ReserveListener
\* has no pool for: vault_to_pool_map.get_mut(..).unwrap() panics.
DeliverPanics ==
    /\ sub_pc = "stream"
    /\ invoked < MaxDeliveries
    /\ sub_kind # "price"
    /\ \E a \in ChainAccounts :
        /\ Matches(desc.filters, a)
        /\ a.key \notin watch
        /\ sobs' = a
    /\ invoked' = invoked + 1
    /\ sub_pc' = "panicked"
    /\ UNCHANGED <<sub_kind, watch, desc>>
    /\ UNCHANGED subFrame

SubNext ==
    \/ SendRequest
    \/ DeliverHandled
    \/ DeliverPanics

(***************************************************************************)
(* Several driver instances: each listener runs Listener::start in a task  *)
(* of its own, over locals of its own.                                     *)
(***************************************************************************)
Instances == {1, 2}

FreshInstance == [pc |-> "connect", attempt |-> 0, msgs |-> 0]

InstInit == inst = [i \in Instances |-> FreshInstance]

\* Everything a driver instance leaves alone.
instFrame == <<driverVars, reserveVars, concVars, priceVars, tickVars, tipVars,
               subVars, mainVars>>

\* attempt += 1; the connection is refused.
InstConnectFail(i) ==
    /\ inst[i].pc = "connect"
    /\ inst' = [inst EXCEPT ![i].attempt = @ + 1, ![i].pc = "check"]
    /\ UNCHANGED instFrame

\* attempt += 1; the connection is made.
InstConnectOk(i) ==
    /\ inst[i].pc = "connect"
    /\ inst' = [inst EXCEPT ![i].attempt = @ + 1, ![i].pc = "subscribe"]
    /\ UNCHANGED instFrame

\* subscribe_once fails.
InstSubscribeFail(i) ==
    /\ inst[i].pc = "subscribe"
    /\ inst' = [inst EXCEPT ![i].pc = "check"]
    /\ UNCHANGED instFrame

\* subscribe_once returns the stream.
InstSubscribeOk(i) ==
    /\ inst[i].pc = "subscribe"
    /\ inst' = [inst EXCEPT ![i].pc = "recv", ![i].msgs = 0]
    /\ UNCHANGED instFrame

\* stream.next() yields an update and handle_update returns.
InstRecv(i) ==
    /\ inst[i].pc = "recv"
    /\ inst[i].msgs < MaxMsgs
    /\ inst' = [inst EXCEPT ![i].msgs = @ + 1]
    /\ UNCHANGED instFrame

\* stream.next() yields an error or the stream ends.
InstSessionEnd(i) ==
    /\ inst[i].pc = "recv"
    /\ inst' = [inst EXCEPT ![i].pc = "check"]
    /\ UNCHANGED instFrame

InstGiveUp_exit(i) ==
    /\ inst[i].pc = "check"
    /\ Exhausted(inst[i].attempt)
    /\ inst' = [j \in Instances |-> [inst[j] EXCEPT !.pc = "stopped"]]
    /\ UNCHANGED instFrame

\* attempt >= max_retries: log the error and break out of the loop.
InstGiveUp(i) ==
    /\ inst[i].pc = "check"
    /\ Exhausted(inst[i].attempt)
    /\ inst' = [inst EXCEPT ![i].pc = "stopped"]
    /\ UNCHANGED instFrame

\* attempt < max_retries: sleep 2 seconds.
InstBackoff(i) ==
    /\ inst[i].pc = "check"
    /\ ~Exhausted(inst[i].attempt)
    /\ inst' = [inst EXCEPT ![i].pc = "sleep"]
    /\ UNCHANGED instFrame

\* The sleep ends and the loop starts over.
InstWakeUp(i) ==
    /\ inst[i].pc = "sleep"
    /\ inst' = [inst EXCEPT ![i].pc = "connect"]
    /\ UNCHANGED instFrame

\* One step of instance i.
InstStep(i) ==
    \/ InstConnectFail(i)
    \/ InstConnectOk(i)
    \/ InstSubscribeFail(i)
    \/ InstSubscribeOk(i)
    \/ InstRecv(i)
    \/ InstSessionEnd(i)
    \/ InstGiveUp(i)
    \/ InstBackoff(i)
    \/ InstWakeUp(i)

InstNext == \E i \in Instances : InstStep(i)

(***************************************************************************)
(* The two driver loops side by side: Listener::start and its copy          *)
(* start_price_listener, each as the function from its position and the     *)
(* feed's next outcome to its next position.                                *)
(***************************************************************************)
\* let max_retries = 5; (start_price_listener)
price_max_retries == 5

\* What the feed answers next: a connect or subscribe that succeeds or fails;
\* on the stream an update, a message without update_oneof, an error or the
\* end, or an update on which handle_update panics; "tick" where the loop
\* moves on its own.
Outcomes == {"ok", "fail", "update", "empty", "err", "end", "panic", "tick"}

\* Listener::start
StartStep(d, o) ==
    CASE d.pc = "connect" /\ o \in {"ok", "fail"} ->
            [d EXCEPT !.attempt = @ + 1, !.did = "connect",
                      !.pc = IF o = "ok" THEN "subscribe" ELSE "check"]
      [] d.pc = "subscribe" /\ o \in {"ok", "fail"} ->
            [d EXCEPT !.did = "subscribe", !.msgs = 0,
                      !.pc = IF o = "ok" THEN "recv" ELSE "check"]
      [] d.pc = "recv" /\ o = "update" /\ d.msgs < MaxMsgs ->
            [d EXCEPT !.did = "handle", !.msgs = @ + 1]
      [] d.pc = "recv" /\ o = "panic" /\ d.msgs < MaxMsgs ->
            [d EXCEPT !.did = "handle", !.pc = "panicked"]
      [] d.pc = "recv" /\ o = "empty" /\ d.msgs < MaxMsgs ->
            [d EXCEPT !.did = "skip"]
      [] d.pc = "recv" /\ o \in {"err", "end"} ->
            [d EXCEPT !.did = "end", !.pc = "check"]
      [] d.pc = "check" /\ o = "tick" ->
            IF d.attempt >= max_retries
            THEN [d EXCEPT !.did = "stop", !.pc = "stopped"]
            ELSE [d EXCEPT !.did = "backoff", !.pc = "sleep"]
      [] d.pc = "sleep" /\ o = "tick" ->
            [d EXCEPT !.did = "wake", !.pc = "connect"]
      [] OTHER -> d

PriceStartStep_resets(d, o) ==
    CASE d.pc = "connect" /\ o \in {"ok", "fail"} ->
            [d EXCEPT !.attempt = @ + 1, !.did = "connect",
                      !.pc = IF o = "ok" THEN "subscribe" ELSE "check"]
      [] d.pc = "subscribe" /\ o \in {"ok", "fail"} ->
            [d EXCEPT !.did = "subscribe", !.msgs = 0,
                      !.attempt = IF o = "ok" THEN 0 ELSE @,
                      !.pc = IF o = "ok" THEN "recv" ELSE "check"]
      [] d.pc = "recv" /\ o = "update" /\ d.msgs < MaxMsgs ->
            [d EXCEPT !.did = "handle", !.msgs = @ + 1]
      [] d.pc = "recv" /\ o = "panic" /\ d.msgs < MaxMsgs ->
            [d EXCEPT !.did = "handle", !.pc = "panicked"]
      [] d.pc = "recv" /\ o = "empty" /\ d.msgs < MaxMsgs ->
            [d EXCEPT !.did = "skip"]
      [] d.pc = "recv" /\ o \in {"err", "end"} ->
            [d EXCEPT !.did = "end", !.pc = "check"]
      [] d.pc = "check" /\ o = "tick" ->
            IF d.attempt >= price_max_retries
            THEN [d EXCEPT !.did = "stop", !.pc = "stopped"]
            ELSE [d EXCEPT !.did = "backoff", !.pc = "sleep"]
      [] d.pc = "sleep" /\ o = "tick" ->
            [d EXCEPT !.did = "wake", !.pc = "connect"]
      [] OTHER -> d

PriceStartStep_restarts(d, o) ==
    IF d.pc = "stopped" /\ o = "tick"
    THEN [d EXCEPT !.pc = "connect", !.attempt = 0, !.did = "wake"]
    ELSE StartStep(d, o)

\* start_price_listener
PriceStartStep(d, o) ==
    CASE d.pc = "connect" /\ o \in {"ok", "fail"} ->
            [d EXCEPT !.attempt = @ + 1, !.did = "connect",
                      !.pc = IF o = "ok" THEN "subscribe" ELSE "check"]
      [] d.pc = "subscribe" /\ o \in {"ok", "fail"} ->
            [d EXCEPT !.did = "subscribe", !.msgs = 0,
                      !.pc = IF o = "ok" THEN "recv" ELSE "check"]
      [] d.pc = "recv" /\ o = "update" /\ d.msgs < MaxMsgs ->
            [d EXCEPT !.did = "handle", !.msgs = @ + 1]
      [] d.pc = "recv" /\ o = "panic" /\ d.msgs < MaxMsgs ->
            [d EXCEPT !.did = "handle", !.pc = "panicked"]
      [] d.pc = "recv" /\ o = "empty" /\ d.msgs < MaxMsgs ->
            [d EXCEPT !.did = "skip"]
      [] d.pc = "recv" /\ o \in {"err", "end"} ->
            [d EXCEPT !.did = "end", !.pc = "check"]
      [] d.pc = "check" /\ o = "tick" ->
            IF d.attempt >= price_max_retries
            THEN [d EXCEPT !.did = "stop", !.pc = "stopped"]
            ELSE [d EXCEPT !.did = "backoff", !.pc = "sleep"]
      [] d.pc = "sleep" /\ o = "tick" ->
            [d EXCEPT !.did = "wake", !.pc = "connect"]
      [] OTHER -> d

\* Instance 1 is about to run Listener::start, instance 2 start_price_listener.
TwinInit ==
    inst = [i \in Instances |->
               [pc |-> "connect", attempt |-> 0, msgs |-> 0, did |-> "none"]]

\* The feed answers both loops alike and each takes its step.
TwinStep(o) ==
    /\ inst' = [inst EXCEPT ![1] = StartStep(inst[1], o),
                            ![2] = PriceStartStep(inst[2], o)]
    /\ inst' # inst
    /\ UNCHANGED instFrame

TwinNext == \E o \in Outcomes : TwinStep(o)

(***************************************************************************)
(* main beside the driver it spawned (main.rs 130-259).                    *)
(***************************************************************************)
\* PRICE_STATE.get(mint).map(|p| p.clone())
get_current_price_info(state, mint) ==
    IF state[mint] = NoPrice THEN None ELSE Some(state[mint])

\* The account data the feed delivers while main runs: a trading price, no
\* trading status, a record that is too short.
MainData ==
    {d \in PriceData : d.expo = -3 /\ d.price_raw = 2
                         /\ ~(d.len = 239 /\ d.status = 2)}

\* main after price_listener_arc.start() (133): the 30 s wait is running and
\* nothing has been read.
MainIdle ==
    main = [pc |-> "warmup", seen |-> [m \in PriceMints |-> None],
            late |-> FALSE]

mainFrame == <<driverVars, reserveVars, concVars, tickVars, tipVars, subVars>>

\* A step of start_price_listener that handles no update. When main has
\* returned the runtime is gone and the spawned task with it.
MainDriverStep ==
    /\ main.pc # "exited"
    /\ \E o \in Outcomes \ {"update", "panic"} :
          inst' = [inst EXCEPT ![2] = PriceStartStep(inst[2], o)]
    /\ inst' # inst
    /\ UNCHANGED <<mainFrame, priceVars, main>>

\* start_price_listener passes an account update of a price account to
\* PriceListener::handle_update.
MainPriceUpdate ==
    /\ main.pc # "exited"
    /\ npr < MaxMainUpdates
    /\ inst' = [inst EXCEPT ![2] = PriceStartStep(inst[2], "update")]
    /\ inst' # inst
    /\ \E a \in DOMAIN account_to_mint, data \in MainData :
        LET mint == account_to_mint[a]
            parsed == parse_real_pyth_price_account(data, mint, npr + 1)
        IN  PRICE_STATE' = IF parsed.some
                           THEN StoreRecord(PRICE_STATE, mint, parsed.value)
                           ELSE PRICE_STATE
    /\ npr' = npr + 1
    /\ UNCHANGED <<mainFrame, pobs, main>>

\* tokio::time::sleep(Duration::from_secs(30)).await returns (136).
MainWarmup ==
    /\ main.pc = "warmup"
    /\ main' = [main EXCEPT !.pc = "loop"]
    /\ UNCHANGED <<mainFrame, priceVars, inst>>

\* One pass of the loop body (143-257): get_current_price_info for every
\* mint, and the file is written.
MainIterate ==
    /\ main.pc = "loop"
    /\ main' = [pc |-> "sleep",
                seen |-> [m \in PriceMints |->
                             get_current_price_info(PRICE_STATE, m)],
                late |-> (inst[2].pc = "stopped")]
    /\ UNCHANGED <<mainFrame, priceVars, inst>>

\* to_string_pretty, File::create or write_all fails and `?` returns from
\* main (247-249).
MainFileError ==
    /\ main.pc = "loop"
    /\ main' = [main EXCEPT !.pc = "exited"]
    /\ UNCHANGED <<mainFrame, priceVars, inst>>

\* tokio::time::sleep(Duration::from_secs(20)).await returns (258).
MainWake ==
    /\ main.pc = "sleep"
    /\ main' = [main EXCEPT !.pc = "loop"]
    /\ UNCHANGED <<mainFrame, priceVars, inst>>

MainNext ==
    \/ MainDriverStep
    \/ MainPriceUpdate
    \/ MainWarmup
    \/ MainIterate
    \/ MainFileError
    \/ MainWake

\* The groups not in play keep their initial value.
AuxIdle == TickInit /\ TipInit /\ SubIdle /\ InstInit /\ MainIdle

DriverNext ==
    \/ ConnectFail
    \/ ConnectOk
    \/ SubscribeFail
    \/ SubscribeOk
    \/ RecvUpdate
    \/ RecvEmpty
    \/ RecvErr
    \/ RecvEnd
    \/ HandleReturn
    \/ HandlePanic
    \/ HandleCrash
    \/ GiveUp
    \/ Backoff
    \/ WakeUp

(***************************************************************************)
(* Specifications.                                                         *)
(***************************************************************************)
\* One driver of any listener variant, its stores left out.
DriverStart ==
    DriverInit /\ ReserveInitWith(ActiveIds, <<1, 2>>) /\ ConcIdle /\ PriceInit /\ AuxIdle

DriverSpec == DriverStart /\ [][DriverNext]_vars

\* The runtime keeps scheduling the driver task, and every awaited connect,
\* subscribe, receive and sleep eventually completes.
FairDriverSpec == DriverStart /\ [][DriverNext]_vars /\ WF_vars(DriverNext)

\* One ReserveListener fed by its driver, the driver left out.
ReserveStart ==
    DriverInit /\ kind = "reserve" /\ ReserveInit /\ ConcIdle /\ PriceInit /\ AuxIdle

ReserveSpec == ReserveStart /\ [][ReserveNext]_vars

\* One ReserveListener whose handle_update is called from two threads.
ConcStart ==
    DriverInit /\ kind = "reserve" /\ ReserveInit /\ ConcInit /\ PriceInit /\ AuxIdle

ConcSpec == ConcStart /\ [][ConcNext]_vars

\* One ReserveListener started on the example's pool and fed its amounts.
ExampleStart ==
    /\ DriverInit /\ kind = "reserve"
    /\ ReserveInitWith(ActiveIds, ExampleReserves) /\ ConcIdle /\ PriceInit /\ AuxIdle

ExampleSpec == ExampleStart /\ [][ExampleNext]_vars

\* One ReserveListener of two pools fed by its driver, the driver left out.
PairStart ==
    /\ DriverInit /\ kind = "reserve"
    /\ ReserveInitWith(PairIds, <<1, 2>>) /\ ConcIdle /\ PriceInit /\ AuxIdle

PairSpec == PairStart /\ [][PairNext]_vars

\* One PriceListener fed by its driver, the driver left out.
PriceStart ==
    /\ DriverInit /\ kind = "price"
    /\ ReserveInitWith(ActiveIds, <<1, 2>>) /\ ConcIdle /\ PriceInit /\ AuxIdle

PriceSpec == PriceStart /\ [][PriceNext]_vars

\* The stores of the other sections, held at one value.
OthersIdle ==
    /\ DriverInit /\ kind = "reserve"
    /\ ReserveInitWith(ActiveIds, <<1, 2>>) /\ ConcIdle /\ PriceInit

\* One OrcaTickArrayListener fed by its driver, the driver left out.
TickStart == OthersIdle /\ TickInit /\ TipInit /\ SubIdle /\ InstInit /\ MainIdle

TickSpec == TickStart /\ [][TickNext]_vars

\* One BlockHashListener fed by its driver, and the readers of the chain tip.
TipStart == OthersIdle /\ TickInit /\ TipInit /\ SubIdle /\ InstInit /\ MainIdle

TipSpec == TipStart /\ [][TipNext]_vars

\* One account listener of any kind and the feed it subscribes to.
SubStart == OthersIdle /\ TickInit /\ TipInit /\ SubInit /\ InstInit /\ MainIdle

SubSpec == SubStart /\ [][SubNext]_vars

\* The generic driver and the price listener's own driver on one feed.
TwinStart == OthersIdle /\ TickInit /\ TipInit /\ SubIdle /\ TwinInit /\ MainIdle

TwinSpec == TwinStart /\ [][TwinNext]_vars

\* main and the price listener's driver it has spawned; main's task is
\* scheduled whenever it can run.
MainStart ==
    /\ DriverInit /\ kind = "price"
    /\ ReserveInitWith(ActiveIds, <<1, 2>>) /\ ConcIdle /\ PriceInit
    /\ TickInit /\ TipInit /\ SubIdle /\ TwinInit /\ MainIdle

MainSpec ==
    /\ MainStart /\ [][MainNext]_vars
    /\ WF_vars(MainWarmup) /\ WF_vars(MainIterate) /\ WF_vars(MainWake)

\* Two driver instances side by side.
InstStart == OthersIdle /\ TickInit /\ TipInit /\ SubIdle /\ InstInit /\ MainIdle

InstSpec == InstStart /\ [][InstNext]_vars

(***************************************************************************)
(* Properties of the reserve synchronization store.                        *)
(***************************************************************************)
TrackedVaults == DOMAIN vault_to_pool_map

PoolVaults(id) == {pool[id].base_vault, pool[id].quote_vault}

\* A step in which handle_update ran on an account update of tracked vault v.
UpdateStep(v) ==
    /\ nupd' = nupd + 1
    /\ obs'.vault = v
    /\ obs'.how \in {"applied", "short"}

\* C1: barrier correctness. A flag is true exactly for the vaults updated
\* since their pool's last settlement (none at startup), and an update of a
\* vault settles exactly when it completes the pair, i.e. when the pool's
\* other vault has been updated since the last settlement: never on the
\* first update of a pair, always on the second, and not again until both
\* vaults have been updated again.
C1_BarrierCorrectness ==
    /\ [](\A v \in TrackedVaults :
            last_updated[v] <=> v \in fresh[vault_to_pool_map[v]])
    /\ [](\A id \in DOMAIN pool : fresh[id] # PoolVaults(id))
    /\ [][\A v \in TrackedVaults :
            UpdateStep(v) =>
                LET id == vault_to_pool_map[v]
                IN  /\ obs'.fired <=> (fresh[id] \cup {v} = PoolVaults(id))
                    /\ obs'.fired => fresh'[id] = {}
                    /\ ~obs'.fired => fresh'[id] = fresh[id] \cup {v}]_vars

\* C1 witness: the second update of a pair has just settled.
C1_Witness ==
    /\ nupd = 2
    /\ obs.fired
    /\ obs.how = "applied"
    /\ \A v \in TrackedVaults : ~last_updated[v]

\* C10: an update of a vault that is not in the index makes the handler
\* panic (the report) before it writes anything: every pool, every flag and
\* the index are as before, and the update is not passed over in silence.
C10_UntrackedVaultReported ==
    [][(nupd' = nupd + 1 /\ obs'.vault \in AllVaults \ TrackedVaults) =>
          /\ task' = "panicked"
          /\ obs'.how = "panic"
          /\ pool' = pool
          /\ last_updated' = last_updated
          /\ vault_to_pool_map' = vault_to_pool_map
          /\ evals' = evals]_vars

\* C10 witness: the handler panicked on an untracked vault after it had
\* applied updates.
C10_Witness ==
    /\ task = "panicked"
    /\ obs.vault \notin TrackedVaults
    /\ nupd = 3
    /\ \E v \in TrackedVaults : last_updated[v]

(***************************************************************************)
(* Properties of concurrent handle_update calls.                           *)
(***************************************************************************)
\* C2: one call for a pool's base vault and one for its quote vault, made
\* from two threads on a listener whose flags are all false, produce exactly
\* one settlement between them.
C2_ExactlyOneSettlement ==
    \A id \in DOMAIN pool :
        (/\ \A t \in Threads : thr[t].pc = "idle"
         /\ nupd = 2
         /\ completed[pool[id].base_vault] = 1
         /\ completed[pool[id].quote_vault] = 1)
        => settled = 1

(***************************************************************************)
(* Properties of the reconnecting stream driver.                           *)
(***************************************************************************)
\* C3: while no connect has succeeded, every attempt so far was a connect
\* call, a sleep lies between consecutive attempts and none follows the last,
\* the driver stops after exactly max_retries attempts, and once stopped it
\* takes no further step.
C3_ReconnectBudget ==
    /\ [](connOk = 0 =>
            /\ connects = attempt
            /\ connects <= max_retries
            /\ sleeps = IF pc \in {"check", "stopped"} THEN connects - 1
                        ELSE connects
            /\ (pc = "stopped" => connects = max_retries /\ sleeps = max_retries - 1))
    /\ [][pc = "stopped" => UNCHANGED vars]_vars

\* C3 witness: the driver stopped after every connect failed.
C3_Witness == pc = "stopped" /\ connOk = 0 /\ ended = max_retries

\* C4: every connect call takes one attempt and every ended attempt (connect
\* failure, subscribe failure, stream error, end of stream) is counted once;
\* the count never goes back, never exceeds max_retries, and the driver is
\* stopped only with the count at max_retries.
C4_SharedBudget ==
    /\ attempt = connects
    /\ connects <= max_retries
    /\ ended = IF pc \in {"subscribe", "recv", "handle", "panicked", "crashed"}
               THEN attempt - 1 ELSE attempt
    /\ (pc \in {"check", "sleep", "stopped"} =>
            sessEnd \in {"connfail", "subfail", "err", "eof"})
    /\ (pc = "stopped" => attempt = max_retries)

\* C4 witness: the driver stopped although its last session connected,
\* delivered updates and ended cleanly.
C4_Witness ==
    /\ pc = "stopped"
    /\ sessEnd = "eof"
    /\ Len(handled) = MaxMsgs
    /\ connOk > 1

\* C5: unless a handler panic or fault kills the task, the driver eventually
\* reaches its stopped state.
C5_EventuallyStops ==
    [](pc \notin {"panicked", "crashed"}) => <>(pc = "stopped")

\* C5 witness: the driver stopped after max_retries sessions that all
\* connected.
C5_Witness == pc = "stopped" /\ connOk = max_retries /\ sessEnd = "err"

\* C6: a session builds and sends its descriptor once, after the connect and
\* before the first message is received; nothing else is sent, and every
\* session that connected built a descriptor of its own.
C6_SubscribeOnce ==
    /\ sessBuilt <= 1
    /\ sessSent <= 1
    /\ (pc = "subscribe" =>
            sessBuilt = 0 /\ sessSent = 0 /\ received = <<>> /\ cur = NoMsg)
    /\ (pc \in {"recv", "handle", "panicked", "crashed"} =>
            sessBuilt = 1 /\ sessSent = 1)
    /\ (received # <<>> => sessBuilt = 1 /\ sessSent = 1)
    /\ built = IF pc = "subscribe" THEN connOk - 1 ELSE connOk

\* C6 witness: the handler runs in the second session, whose descriptor was
\* sent once.
C6_Witness == pc = "handle" /\ connOk = 2 /\ sessSent = 1 /\ built = 2

\* The indices of the messages with a variant, in receive order.
WithVariant(r) == SelectSeq([i \in 1 .. Len(r) |-> i], LAMBDA i : r[i])

InHandler == pc \in {"handle", "panicked", "crashed"}

\* C7: the completed handler calls of a session are exactly its messages with
\* a variant, in receive order; a message is taken only when no call is
\* running; a message without a variant starts no call and leaves the driver
\* receiving.
C7_InOrderDispatch ==
    /\ [](IF InHandler
          THEN /\ cur # NoMsg
               /\ Len(received) > 0
               /\ received[Len(received)]
               /\ Append(handled, Len(received)) = WithVariant(received)
          ELSE /\ cur = NoMsg
               /\ handled = WithVariant(received))
    /\ [][(Len(received') = Len(received) + 1 /\ ~received'[Len(received')]) =>
            pc' = "recv" /\ handled' = handled /\ cur' = cur]_vars

\* C7 witness: a message without a variant and then an update were received,
\* and the update's call completed.
C7_Witness == received = <<FALSE, TRUE>> /\ handled = <<2>> /\ pc = "recv"

\* C8: a stream error ends the receive loop at once, so that no message of
\* the session is received or handled after it, and with attempts left the
\* driver sleeps and connects again instead of stopping.
C8_StreamErrorEndsSession ==
    /\ [][(sessEnd' = "err" /\ sessEnd # "err") =>
            pc = "recv" /\ pc' = "check" /\ UNCHANGED <<received, handled, cur>>]_vars
    /\ [](sessEnd = "err" => pc \in {"check", "sleep", "connect", "stopped"})
    /\ [][(sessEnd = "err" /\ sessEnd' = "err") =>
            UNCHANGED <<received, handled, cur>>]_vars
    /\ [][(sessEnd = "err" /\ pc = "check" /\ attempt < max_retries) =>
            pc' = "sleep"]_vars
    /\ [][(sessEnd = "err" /\ pc = "sleep") => pc' = "connect"]_vars
    /\ [](sessEnd = "err" /\ pc = "stopped" => attempt = max_retries)

\* C8 witness: after a session that handled an update and then errored, the
\* driver is back at connecting.
C8_Witness ==
    /\ sessEnd = "err"
    /\ pc = "connect"
    /\ Len(handled) > 0
    /\ attempt < max_retries

\* C9: the handler returns normally from an account update whose payload
\* does not decode, and the driver goes on receiving.
C9_DecodeErrorDropsMessage ==
    [][(pc = "handle" /\ cur.type = "account" /\ cur.key32 /\ cur.tracked
            /\ ~cur.ok) => pc' = "recv"]_vars

(***************************************************************************)
(* Properties of the evaluation dispatch.                                  *)
(***************************************************************************)
\* The evaluation the step has just spawned.
Dispatched == evals'[Len(evals')]

\* C11: snapshot isolation. The snapshot a settling update hands to the
\* evaluation holds the reserves of both sides as the pool has them when the
\* update releases the pool's lock, and no update applied afterwards changes
\* the snapshot of an evaluation that has not run yet.
C11_SnapshotIsolation ==
    /\ [][\A v \in TrackedVaults : (UpdateStep(v) /\ obs'.fired) =>
            LET id == vault_to_pool_map[v]
            IN  /\ Len(evals') = Len(evals) + 1
                /\ Dispatched.pool_copy.pool_id = id
                /\ Dispatched.pool_copy.mint_a_reserve = pool'[id].mint_a_reserve
                /\ Dispatched.pool_copy.mint_b_reserve = pool'[id].mint_b_reserve]_vars
    /\ [][nupd' = nupd + 1 =>
            /\ Len(evals') >= Len(evals)
            /\ \A i \in 1 .. Len(evals) :
                evals'[i].pool_copy = evals[i].pool_copy]_vars

\* An evaluation not yet run holds a snapshot the pool has since moved from.
C11_Witness ==
    \E i \in 1 .. Len(evals) :
        LET snap == evals[i].pool_copy
        IN  snap.mint_a_reserve # pool[snap.pool_id].mint_a_reserve

\* C13: the dispatch never blocks ingestion. Whatever evaluations are still
\* running, the handler can take the next update, every running evaluation can
\* finish, and an update neither removes nor changes an evaluation dispatched
\* earlier.
C13_DispatchNeverBlocks ==
    /\ []((task = "running" /\ nupd < MaxUpdates) => ENABLED HandleUpdate)
    /\ [](evals # <<>> => ENABLED EvalDone)
    /\ [][nupd' = nupd + 1 => SubSeq(evals', 1, Len(evals)) = evals]_vars

\* An update was applied while an evaluation dispatched before it still runs.
C13_Witness ==
    /\ Len(evals) = 1 /\ nupd = 3
    /\ obs.how = "applied" /\ ~obs.fired

\* C14: each settlement dispatches exactly one evaluation, carrying the settled
\* pool's snapshot, the price-change percentage of the settling update and all
\* the registry's pools of the same mint pair; a handle_update call that does
\* not settle dispatches none.
C14_OneEvaluationPerSettlement ==
    [][nupd' = nupd + 1 =>
         IF obs'.fired
         THEN LET id == vault_to_pool_map[obs'.vault]
                  registry == UNION {pools_by_mints[k] : k \in DOMAIN pools_by_mints}
              IN  /\ evals' = Append(evals, Dispatched)
                  /\ Dispatched.pool_copy = pool'[id]
                  /\ Dispatched.price_change_pct =
                        price_change_pct(pool[id].mint_a_reserve,
                                         pool[id].mint_b_reserve,
                                         pool'[id].mint_a_reserve,
                                         pool'[id].mint_b_reserve)
                  /\ Dispatched.pools_copy =
                        {p \in registry : {p.mint_a, p.mint_b} =
                                          {pool[id].mint_a, pool[id].mint_b}}
         ELSE evals' = evals]_vars

C14_Witness ==
    /\ obs.fired /\ Len(evals) = 2
    /\ Cardinality(evals[2].pools_copy) = 2

\* C16: the percentage an update computes is
\* ((new_b/new_a) - (old_b/old_a)) / (old_b/old_a) * 100 of the reserves the
\* pool holds right before the update's write (old) and right after it (new):
\* equal to 100 * (new_b*old_a - old_b*new_a) / (new_a*old_b) when old_a,
\* old_b and new_a are not zero, not finite otherwise; old and new differ at
\* most in the side the update wrote.
C16_PriceChangeFormula ==
    [][\A v \in TrackedVaults : UpdateStep(v) =>
          LET id == vault_to_pool_map[v]
              old_a == pool[id].mint_a_reserve
              old_b == pool[id].mint_b_reserve
              new_a == pool'[id].mint_a_reserve
              new_b == pool'[id].mint_b_reserve
              pct == obs'.pct
          IN  /\ IF old_a # 0 /\ old_b # 0 /\ new_a # 0
                 THEN /\ pct.k = "fin"
                      /\ pct.den # 0
                      /\ pct.num * (new_a * old_b) =
                            100 * (new_b * old_a - old_b * new_a) * pct.den
                 ELSE pct.k # "fin"
              /\ (v = pool[id].base_vault => new_b = old_b)
              /\ (v = pool[id].quote_vault => new_a = old_a)
              /\ (obs'.fired /\ ~KOLIBRI_ENABLED =>
                    Dispatched.price_change_pct = pct)]_vars

\* An update that does not settle computes a finite percentage other than 0.
C16_Witness ==
    /\ obs.how = "applied" /\ ~obs.fired
    /\ obs.pct.k = "fin"
    /\ obs.pct.num < 0

\* C15: in the example (base 1000, quote 2000; base updated to 1100 without a
\* settlement, then quote updated to 2150 with one) the settlement carries a
\* price_change_pct of about -2.27, between -2.28 and -2.26.
C15_ExamplePct ==
    (/\ nupd = 2 /\ obs.vault = "B1" /\ obs.fired /\ Len(evals) = 1
     /\ pool["P1"].mint_a_reserve = 1100
     /\ pool["P1"].mint_b_reserve = 2150)
    => LET pct == evals[1].price_change_pct
       IN  /\ pct.k = "fin"
           /\ pct.num * 100 > (0 - 228) * pct.den
           /\ pct.num * 100 < (0 - 226) * pct.den

(***************************************************************************)
(* Properties of the locks of concurrent handle_update calls.              *)
(***************************************************************************)
\* C12: a caller holds a pool's write lock exactly between taking it and the
\* end of the block that reads the old reserves, writes the new one and clones
\* the pool; it does not hold it while it sets, reads or resets the flags or
\* dispatches the evaluation.
C12_PoolLockScope ==
    \A t \in Threads :
        /\ (\E id \in DOMAIN pool_lock : pool_lock[id] = t)
              <=> thr[t].pc \in {"update", "unlock"}
        /\ thr[t].pc \in {"set_flag", "get_base", "get_quote", "reset_base",
                          "reset_quote", "spawn"}
              => pool_lock[vault_to_pool_map[thr[t].vault]] # t

\* One caller sets its flag while the other holds the same pool's lock.
C12_Witness ==
    /\ thr[1].pc = "set_flag" /\ thr[2].pc = "update"
    /\ pool_lock[vault_to_pool_map[thr[1].vault]] = 2

(***************************************************************************)
(* Properties of the oracle price store.                                   *)
(***************************************************************************)
\* A step in which PriceListener::handle_update ran on an account update.
PriceStep == npr' = npr + 1 /\ pobs'.type = "account"

\* The same, the update naming a price account of the table by a 32-byte key.
TrackedPriceStep ==
    PriceStep /\ pobs'.key32 /\ pobs'.account \in DOMAIN account_to_mint

Noticed(o) == o.notice.kind \in {"first", "change"}

\* C17: an oracle account update of fewer than 240 bytes is rejected: no
\* record of the store changes or is created, and no notice is emitted.
C17_ShortRecordRejected ==
    [][(PriceStep /\ pobs'.data.len < 240) =>
          /\ PRICE_STATE' = PRICE_STATE
          /\ ~Noticed(pobs')]_vars

\* A 239-byte update for an asset that has a record.
C17_Witness ==
    /\ pobs.data.len = 239 /\ pobs.account = "H6AR" /\ pobs.result = "rejected"
    /\ PRICE_STATE["So11"] # NoPrice

\* C18: non-trading passthrough. A record of at least 240 bytes whose status
\* code is not 1 is stored under the asset with price 0, confidence 0 and a
\* status string that carries the code, replacing the asset's earlier record.
C18_NonTradingPassthrough ==
    [][(TrackedPriceStep /\ pobs'.data.len >= 240 /\ pobs'.data.status # 1) =>
          LET mint == account_to_mint[pobs'.account]
              r == PRICE_STATE'[mint]
          IN  /\ r.mint = mint
              /\ r.price.num = 0
              /\ r.confidence.num = 0
              /\ r.status.fmt = "Non-Trading (status: {})"
              /\ r.status.arg = pobs'.data.status
              /\ r.last_updated = npr'
              /\ \A m \in PriceMints \ {mint} : PRICE_STATE'[m] = PRICE_STATE[m]]_vars

\* A non-trading record has replaced an asset's earlier record.
C18_Witness ==
    /\ pobs.account = "H6AR" /\ pobs.data.status = 2 /\ pobs.result = "stored"
    /\ pobs.notice.kind = "change"
    /\ PRICE_STATE["So11"].price.num = 0
    /\ PRICE_STATE["So11"].last_updated = 2

\* mantissa * 10^exponent is <= 0 or >= 10,000,000
OutOfRange(raw, expo) ==
    \/ raw <= 0
    \/ IF expo >= 0 THEN raw * Pow10(expo) >= 10000000
       ELSE raw \div Pow10(0 - expo) >= 10000000

\* C19: sanity rejection. A trading record whose mantissa is 0, or whose price
\* mantissa * 10^exponent is <= 0 or >= 10,000,000, leaves the store as it
\* was and emits no notice.
C19_SanityRejection ==
    [][(/\ TrackedPriceStep /\ pobs'.data.len >= 240 /\ pobs'.data.status = 1
        /\ \/ pobs'.data.price_raw = 0
           \/ OutOfRange(pobs'.data.price_raw, pobs'.data.expo)) =>
          /\ PRICE_STATE' = PRICE_STATE
          /\ ~Noticed(pobs')]_vars

\* A trading record of price exactly 10,000,000 for an asset that has a record.
C19_Witness ==
    /\ pobs.account = "Gnt2" /\ pobs.data.len = 240 /\ pobs.data.status = 1
    /\ pobs.data.price_raw = 1 /\ pobs.data.expo = 7
    /\ pobs.result = "rejected"
    /\ PRICE_STATE["EPjF"] # NoPrice

\* The record has at least 240 bytes and is non-trading, or trading with a
\* mantissa other than 0 and a price within the sanity bounds.
Accepted(data) ==
    /\ data.len >= 240
    /\ \/ data.status # 1
       \/ data.price_raw # 0 /\ ~OutOfRange(data.price_raw, data.expo)

\* C20: every accepted update overwrites the asset's record, with or without a
\* notice: after the step the record holds the update's price, confidence and
\* time; an update that is not accepted leaves the store as it was. So the
\* record of an asset is always the result of its last accepted update.
C20_AlwaysOverwrite ==
    [][PriceStep =>
          IF pobs'.key32 /\ pobs'.account \in DOMAIN account_to_mint
             /\ Accepted(pobs'.data)
          THEN LET mint == account_to_mint[pobs'.account]
                   r == PRICE_STATE'[mint]
                   d == pobs'.data
               IN  /\ r.last_updated = npr'
                   /\ r.price = IF d.status = 1 THEN Scaled(d.price_raw, d.expo)
                                ELSE Zero
                   /\ r.confidence = IF d.status = 1 THEN Scaled(d.conf_raw, d.expo)
                                     ELSE Zero
                   /\ (d.status = 1 <=> r.status.fmt = "REAL Pyth Live")
                   /\ \A m \in PriceMints \ {mint} : PRICE_STATE'[m] = PRICE_STATE[m]
          ELSE PRICE_STATE' = PRICE_STATE]_vars

\* An update within the notice threshold has overwritten the record silently.
C20_Witness ==
    /\ pobs.account = "H6AR" /\ pobs.result = "stored"
    /\ pobs.notice.kind = "silent"
    /\ PRICE_STATE["So11"].last_updated = 2
    /\ PRICE_STATE["So11"].price = Scaled(2, 0 - 3)

\* |a - b| > 1/1000 for two prices given as fractions.
Moved(a, b) ==
    LET d == a.num * b.den - b.num * a.den
    IN  \/ d > (a.den * b.den) \div 1000
        \/ 0 - d > (a.den * b.den) \div 1000

\* C21: on an accepted update a first-observation notice is emitted exactly
\* when the asset had no record; a change notice, carrying the signed
\* percentage (new - old) / old * 100, exactly when it had one and
\* |old - new| > 0.001; otherwise the update is silent.
C21_NoticeRule ==
    [][(TrackedPriceStep /\ Accepted(pobs'.data)) =>
          LET mint == account_to_mint[pobs'.account]
              old == PRICE_STATE[mint]
              new == PRICE_STATE'[mint]
              n == pobs'.notice
          IN  /\ n.kind \in {"first", "change", "silent"}
              /\ (n.kind = "first" <=> old = NoPrice)
              /\ (n.kind = "change" <=>
                    old # NoPrice /\ Moved(old.price, new.price))
              /\ (n.kind = "change" =>
                    /\ n.change =
                          IF old.price.num = 0 THEN [k |-> "inf"]
                          ELSE [k |-> "fin",
                                num |-> 100 * (new.price.num * old.price.den
                                               - old.price.num * new.price.den),
                                den |-> new.price.den * old.price.num]
                    /\ (n.arrow = "UP" <=>
                          new.price.num * old.price.den
                              > old.price.num * new.price.den))]_vars

\* A change notice with a negative percentage.
C21_Witness ==
    /\ pobs.result = "stored" /\ pobs.notice.kind = "change"
    /\ pobs.notice.arrow = "DOWN"
    /\ pobs.notice.change.k = "fin"
    /\ pobs.notice.change.num < 0

\* C22: the set of assets with a record never shrinks.
C22_RecordsNeverDeleted ==
    [][\A m \in PriceMints :
          PRICE_STATE[m] # NoPrice => PRICE_STATE'[m] # NoPrice]_vars

\* Both assets have a record and the last update was rejected.
C22_Witness ==
    /\ npr = 3 /\ pobs.result = "rejected"
    /\ \A m \in PriceMints : PRICE_STATE[m] # NoPrice

OtherVault(id, v) == CHOOSE w \in PoolVaults(id) : w # v

\* C28: an update of a vault overwrites only that side's reserve: a base vault
\* update writes the amount to the base reserve and leaves the quote reserve,
\* a quote vault update the other way round; no step changes a pool's id,
\* vaults or mints.
C28_OnlyOneSideWritten ==
    /\ [][\A v \in TrackedVaults : UpdateStep(v) =>
            LET id == vault_to_pool_map[v]
            IN  /\ v = pool[id].base_vault =>
                      /\ pool'[id].mint_a_reserve = obs'.amount
                      /\ pool'[id].mint_b_reserve = pool[id].mint_b_reserve
                /\ v = pool[id].quote_vault =>
                      /\ pool'[id].mint_b_reserve = obs'.amount
                      /\ pool'[id].mint_a_reserve = pool[id].mint_a_reserve
                /\ \A other \in DOMAIN pool \ {id} : pool'[other] = pool[other]]_vars
    /\ [][\A id \in DOMAIN pool :
            /\ pool'[id].pool_id = pool[id].pool_id
            /\ pool'[id].base_vault = pool[id].base_vault
            /\ pool'[id].quote_vault = pool[id].quote_vault
            /\ pool'[id].mint_a = pool[id].mint_a
            /\ pool'[id].mint_b = pool[id].mint_b]_vars

\* The base reserve was overwritten and the quote reserve is the initial one.
C28_Witness ==
    /\ nupd = 1 /\ obs.vault = "A1" /\ obs.how = "applied" /\ obs.amount = 0
    /\ pool["P1"].mint_a_reserve = 0
    /\ pool["P1"].mint_b_reserve = 2

\* C29: the barrier depends only on which vaults were updated since the last
\* reset. An update of a vault whose pool's other flag is false does not fire
\* and leaves exactly its own flag set, however often the vault was updated
\* before; an update whose pool's other flag is true fires once and clears
\* both flags; the update right after a firing never fires.
C29_BarrierOrderInsensitive ==
    /\ [][\A v \in TrackedVaults : UpdateStep(v) =>
            LET id == vault_to_pool_map[v]
                w == OtherVault(id, v)
            IN  IF last_updated[w]
                THEN /\ obs'.fired
                     /\ ~last_updated'[v] /\ ~last_updated'[w]
                     /\ Len(evals') = Len(evals) + 1
                ELSE /\ ~obs'.fired
                     /\ last_updated'[v] /\ ~last_updated'[w]
                     /\ evals' = evals]_vars
    /\ [][\A v \in TrackedVaults :
            (UpdateStep(v) /\ obs.vault = v /\ ~obs.fired
             /\ obs.how \in {"applied", "short"}) => ~obs'.fired]_vars
    /\ [][\A v \in TrackedVaults :
            (UpdateStep(v) /\ obs.fired /\ DOMAIN pool = {vault_to_pool_map[v]})
                => ~obs'.fired]_vars

\* The fourth update, of the quote vault, settles a pool whose snapshot has
\* both reserves at 0; one evaluation is in flight.
C29_Witness ==
    /\ nupd = 4 /\ obs.vault = "B1" /\ obs.fired
    /\ evals # <<>>
    /\ evals[1].pool_copy.mint_b_reserve = 0
    /\ evals[1].pool_copy.mint_a_reserve = 0
    /\ Len(evals) = 1

\* C30: when the pool's old base reserve or old quote reserve (old price) is
\* 0, the update is applied as any other: the reserve is written, the flag is
\* set, the barrier check runs and fires when the other flag is set, the
\* percentage is not finite and is handed on as it is, and the handler
\* returns.
C30_WarmUpPoolApplied ==
    [][\A v \in TrackedVaults :
          (/\ UpdateStep(v) /\ obs'.how = "applied"
           /\ LET id == vault_to_pool_map[v]
              IN  pool[id].mint_a_reserve = 0 \/ pool[id].mint_b_reserve = 0) =>
          LET id == vault_to_pool_map[v]
              w == OtherVault(id, v)
          IN  /\ task' = "running"
              /\ pool'[id] = ApplyAmount(pool[id], v, obs'.amount)
              /\ obs'.pct.k \in {"nan", "inf", "-inf"}
              /\ (obs'.fired <=> last_updated[w])
              /\ (~obs'.fired => last_updated'[v])
              /\ (obs'.fired /\ ~KOLIBRI_ENABLED =>
                    Dispatched.price_change_pct = obs'.pct)]_vars

\* A settlement of a warm-up pool hands on a percentage that is not a number.
C30_Witness ==
    /\ task = "running" /\ obs.fired /\ obs.pct.k = "nan"
    /\ Len(evals) = 1 /\ evals[1].price_change_pct.k = "nan"

(***************************************************************************)
(* Properties of the subscription descriptors, the sub-object cache, the   *)
(* chain-tip state and the driver instances.                               *)
(***************************************************************************)
\* C24: once a listener whose account list is empty (a ReserveListener whose
\* reserve_keys is empty, a PriceListener with no price account) has sent its
\* request, the request matches no account of the chain, its handler has not
\* been invoked, and the session is a live one.
C24_EmptyDescriptorInert ==
    (desc.sent /\ WatchList(sub_kind, watch) = {}) =>
        /\ \A a \in ChainAccounts : ~Matches(desc.filters, a)
        /\ invoked = 0
        /\ sub_pc = "stream"

\* A handle_update call of the OrcaTickArrayListener.
TickStep == ntk' = ntk + 1

\* C25: a tick-array update whose data does not decode leaves every entry of
\* the cache as it was; one whose data decodes puts the decoded array under its
\* key and leaves every other key's entry as it was, so that by induction an
\* entry is the last array decoded for its key; and no call touches the update
\* flags, the pools or the evaluations of the reserve store.
C25_TickCacheLastWriteWins ==
    [][TickStep =>
        /\ (tobs'.type = "account" /\ ~tobs'.data.decodes) =>
              tick_arrays' = tick_arrays
        /\ tobs'.result # "stored" => tick_arrays' = tick_arrays
        /\ tobs'.result = "stored" =>
              /\ tobs'.data.decodes
              /\ tick_arrays'[tobs'.key] =
                    [start_tick_index |-> tobs'.data.start_tick_index]
              /\ \A k \in TickKeys \ {tobs'.key} :
                    tick_arrays'[k] = tick_arrays[k]
        /\ UNCHANGED reserveVars
    ]_vars

\* An update that does not decode arrives for a key that has an entry, while
\* another key has one too.
C25_Witness ==
    /\ tobs.result = "dropped"
    /\ tick_arrays[tobs.key] # NoTick
    /\ \E k \in TickKeys \ {tobs.key} : tick_arrays[k] # NoTick

\* A handle_update call of the BlockHashListener.
BlockStep == nblk' = nblk + 1

\* C26: a block-metadata notification leaves the chain-tip state equal to its
\* block hash and slot, whatever the stored slot was; any other update leaves
\* it as it was; before the first call there is no stored value; and a read
\* yields the stored value, or the zero-valued default when there is none.
C26_ChainTipOverwrite ==
    /\ [](nblk = 0 => SHARED_STATE = NoAppState)
    /\ [][(BlockStep /\ bobs'.type = "blockmeta") =>
            SHARED_STATE' = [latest_block_hash |-> bobs'.blockhash,
                             slot |-> bobs'.slot]]_vars
    /\ [][(BlockStep /\ bobs'.type # "blockmeta") =>
            SHARED_STATE' = SHARED_STATE]_vars
    /\ [][tip_read' # tip_read =>
            tip_read' = IF SHARED_STATE = NoAppState
                        THEN [latest_block_hash |-> "", slot |-> 0]
                        ELSE SHARED_STATE]_vars

\* A reader saw a written value, and the value now stored has a lower slot.
C26_Witness ==
    /\ bobs.type = "blockmeta"
    /\ tip_read # NoAppState
    /\ tip_read # DefaultAppState
    /\ SHARED_STATE.slot < tip_read.slot

\* C27: the step on which a driver instance stops is its own give-up on an
\* exhausted budget and changes nothing of any other instance (attempt count,
\* session position, messages handled); and whatever instances have stopped,
\* an instance that has not can take its next step.
C27_InstancesIndependent ==
    /\ [][\A i \in Instances :
            (inst[i].pc # "stopped" /\ inst'[i].pc = "stopped") =>
                /\ inst[i].pc = "check"
                /\ inst[i].attempt >= max_retries
                /\ \A j \in Instances \ {i} : inst'[j] = inst[j]]_vars
    /\ [](\A j \in Instances :
            inst[j].pc # "stopped" => ENABLED InstStep(j))

\* One instance has stopped while the other is in a session, has handled a
\* message and has budget left.
C27_Witness ==
    /\ inst[1].pc = "stopped"
    /\ inst[2].pc = "recv"
    /\ inst[2].msgs > 0
    /\ inst[2].attempt < max_retries

(***************************************************************************)
(* Further properties of the oracle price store.                           *)
(***************************************************************************)
\* C35: every record of the price store has price 0 and confidence 0 with a
\* non-trading status that carries a code other than 1, or a price strictly
\* between 0 and 10,000,000 with the live status.
C35_StoredRecordShapes ==
    \A m \in PriceMints :
        LET r == PRICE_STATE[m]
        IN  \/ r = NoPrice
            \/ /\ r.price = Zero
               /\ r.confidence = Zero
               /\ r.status.fmt = "Non-Trading (status: {})"
               /\ r.status.arg # 1
            \/ /\ r.price.num > 0
               /\ r.price.num \div r.price.den < 10000000
               /\ r.status.fmt = "REAL Pyth Live"

\* One asset holds a non-trading record and the other a live one.
C35_Witness ==
    /\ PRICE_STATE["So11"].status.fmt = "Non-Trading (status: {})"
    /\ PRICE_STATE["EPjF"].status.fmt = "REAL Pyth Live"

\* C36: the decoder checks the length, then the status, then the mantissa,
\* then the sanity bound. A record shorter than 240 bytes is rejected whatever
\* its status; one of at least 240 bytes whose status is not 1 is stored with
\* price 0 whatever its mantissa and exponent; a trading one is rejected when
\* its mantissa is 0 and otherwise stored exactly when its price is within the
\* bounds.
C36_DecoderCheckOrder ==
    [][TrackedPriceStep =>
          LET d == pobs'.data
              mint == account_to_mint[pobs'.account]
          IN  /\ d.len < 240 => pobs'.result = "rejected"
              /\ (d.len >= 240 /\ d.status # 1) =>
                    /\ pobs'.result = "stored"
                    /\ PRICE_STATE'[mint].price = Zero
                    /\ PRICE_STATE'[mint].status.arg = d.status
              /\ (d.len >= 240 /\ d.status = 1 /\ d.price_raw = 0) =>
                    pobs'.result = "rejected"
              /\ (d.len >= 240 /\ d.status = 1 /\ d.price_raw # 0) =>
                    (pobs'.result = "stored" <=>
                        ~OutOfRange(d.price_raw, d.expo))]_vars

\* A non-trading record whose mantissa is 0 has been stored.
C36_Witness ==
    /\ pobs.data.len = 240 /\ pobs.data.status = 2 /\ pobs.data.price_raw = 0
    /\ pobs.result = "stored"
    /\ pobs.account \in DOMAIN account_to_mint
    /\ PRICE_STATE[account_to_mint[pobs.account]].price = Zero

\* A step that stores a trading record over a non-trading record of the asset.
TradingOverNonTrading ==
    /\ TrackedPriceStep
    /\ pobs'.result = "stored"
    /\ pobs'.data.status = 1
    /\ PRICE_STATE[account_to_mint[pobs'.account]] # NoPrice
    /\ PRICE_STATE[account_to_mint[pobs'.account]].price.num = 0

\* A first-observation notice is emitted only for an asset without a record,
\* and leaves it with one; records are never removed.
FirstNoticeOnce ==
    /\ [][(TrackedPriceStep /\ pobs'.notice.kind = "first") =>
            /\ PRICE_STATE[account_to_mint[pobs'.account]] = NoPrice
            /\ PRICE_STATE'[account_to_mint[pobs'.account]] # NoPrice]_vars
    /\ [][\A m \in PriceMints :
            PRICE_STATE[m] # NoPrice => PRICE_STATE'[m] # NoPrice]_vars

\* C37: a trading update stored over a non-trading record (price 0) emits a
\* change notice and overwrites the record with the new price; a
\* first-observation notice is emitted at most once per asset.
C37_ZeroIsPreviousPrice ==
    /\ [][TradingOverNonTrading =>
            /\ pobs'.notice.kind = "change"
            /\ PRICE_STATE'[account_to_mint[pobs'.account]].price =
                  Scaled(pobs'.data.price_raw, pobs'.data.expo)]_vars
    /\ FirstNoticeOnce

\* C37, amended: a trading update stored over a non-trading record (price 0)
\* never emits a first-observation notice and overwrites the record with the
\* new price; it emits a change notice, with an infinite percentage and the
\* upward arrow, exactly when the new price is above 0.001, and is silent
\* otherwise; a first-observation notice is emitted at most once per asset.
C37_ZeroIsPreviousPriceAboveThreshold ==
    /\ [][TradingOverNonTrading =>
            LET new == Scaled(pobs'.data.price_raw, pobs'.data.expo)
                n == pobs'.notice
            IN  /\ n.kind \in {"change", "silent"}
                /\ (n.kind = "change" <=> new.num * 1000 > new.den)
                /\ (n.kind = "change" =>
                        n.change = [k |-> "inf"] /\ n.arrow = "UP")
                /\ PRICE_STATE'[account_to_mint[pobs'.account]].price = new]_vars
    /\ FirstNoticeOnce

\* A trading update has replaced a non-trading record and emitted a change
\* notice with an infinite percentage.
C37_Witness ==
    /\ pobs.result = "stored" /\ pobs.data.status = 1
    /\ pobs.notice.kind = "change"
    /\ pobs.notice.change.k = "inf"
    /\ npr >= 2

\* C38: an update that is no account update, whose pubkey has not 32 bytes, or
\* whose account is not in account_to_mint leaves every record of the price
\* store as it was and emits neither a notice nor a parse warning.
C38_ForeignUpdateInert ==
    [][(/\ npr' = npr + 1
        /\ \/ pobs'.type # "account"
           \/ ~pobs'.key32
           \/ pobs'.account \notin DOMAIN account_to_mint) =>
          /\ PRICE_STATE' = PRICE_STATE
          /\ pobs'.notice.kind = "none"
          /\ ~pobs'.warned]_vars

\* An update with a short pubkey arrives while both assets have a record.
C38_Witness ==
    /\ pobs.type = "account" /\ ~pobs.key32 /\ pobs.result = "ignored"
    /\ \A m \in PriceMints : PRICE_STATE[m] # NoPrice

(***************************************************************************)
(* Properties of the index guard of concurrent handle_update calls.        *)
(***************************************************************************)
\* The caller is between its get_mut and its return.
InGuard(t) ==
    thr[t].pc \in {"write_lock", "update", "unlock", "set_flag", "get_base",
                   "get_quote", "reset_base", "reset_quote", "spawn", "return"}

\* A caller holds the write lock of its vault's shard of the index exactly
\* from its get_mut to its return, and two callers on the same vault are never
\* both past their get_mut.
GuardHeldToReturn ==
    /\ \A t \in Threads :
          InGuard(t) <=> (thr[t].vault \in DOMAIN shard_of
                          /\ shard_lock[shard_of[thr[t].vault]] = t)
    /\ \A t, u \in Threads :
          (t # u /\ InGuard(t) /\ InGuard(u)) => thr[t].vault # thr[u].vault

\* C40: the guard taken at the index lookup is held until the handler returns
\* (across the pool-lock section, the flag set, check and reset and the
\* dispatch), two calls for the same vault never overlap, and a call for one
\* vault is never kept waiting at its lookup by a call for another vault.
C40_IndexGuardPerVault ==
    /\ GuardHeldToReturn
    /\ \A t, u \in Threads :
          (/\ thr[t].pc = "get_mut" /\ InGuard(u)
           /\ thr[t].vault # thr[u].vault) =>
              shard_lock[shard_of[thr[t].vault]] = 0

\* C40, amended: the guard taken at the index lookup is held until the handler
\* returns, two calls for the same vault never overlap, and a call is kept
\* waiting at its lookup by a call for another vault exactly when the two
\* vaults' keys lie in the same shard of the index.
C40_IndexGuardPerShard ==
    /\ GuardHeldToReturn
    /\ \A t, u \in Threads :
          (/\ thr[t].pc = "get_mut" /\ InGuard(u)
           /\ thr[t].vault # thr[u].vault) =>
              (shard_lock[shard_of[thr[t].vault]] = 0
                 <=> shard_of[thr[t].vault] # shard_of[thr[u].vault])

\* Two calls for the two vaults of a pool are past their lookups at once, one
\* reading the flags and the other under the pool's lock.
C40_Witness ==
    /\ thr[1].pc = "get_base" /\ thr[2].pc = "update"
    /\ thr[1].vault # thr[2].vault
    /\ shard_lock[shard_of[thr[1].vault]] = 1
    /\ shard_lock[shard_of[thr[2].vault]] = 2

(***************************************************************************)
(* Properties of the pool registry and of pools side by side.              *)
(***************************************************************************)
\* All the pools the registry holds.
RegistryNow == UNION {pools_by_mints[k] : k \in DOMAIN pools_by_mints}

\* C34: no handle_update call changes the registry, which stays the registry
\* of startup while the listener's own pool objects take the updates; the
\* sibling pools a settlement dispatches are registry values, the settled
\* pool's entry among them with the registry's reserves and not with the
\* reserves just applied.
C34_RegistryUntouched ==
    /\ [](\E r \in StartReserves : RegistryNow = RegistryPools(r))
    /\ [][nupd' = nupd + 1 => pools_by_mints' = pools_by_mints]_vars
    /\ [][\A v \in TrackedVaults : (UpdateStep(v) /\ obs'.fired) =>
            LET id == vault_to_pool_map[v]
            IN  /\ Dispatched.pools_copy \subseteq RegistryNow
                /\ \E p \in Dispatched.pools_copy : p.pool_id = id
                /\ \A p \in Dispatched.pools_copy :
                      p.pool_id = id =>
                          \E r \in StartReserves :
                              /\ p.mint_a_reserve = r[1]
                              /\ p.mint_b_reserve = r[2]]_vars

\* A dispatched sibling set holds the settled pool with reserves other than
\* the ones in the snapshot dispatched with it.
C34_Witness ==
    \E i \in 1 .. Len(evals) :
        \E p \in evals[i].pools_copy :
            /\ p.pool_id = evals[i].pool_copy.pool_id
            /\ p.mint_a_reserve # evals[i].pool_copy.mint_a_reserve
            /\ p.mint_b_reserve # evals[i].pool_copy.mint_b_reserve
            /\ pool[p.pool_id].mint_a_reserve # p.mint_a_reserve

\* The listener's subscribed key list: the vaults of its active pools, none of
\* them an Orca pool.
SubscribedKeys ==
    reserve_keys("reserve",
                 UNION {{p.base_vault, p.quote_vault} :
                           p \in {q \in RegistryPools(<<1, 2>>) :
                                     q.pool_id \in PairIds}})

\* C32: from construction on, every subscribed vault is a key of the index and
\* of the flag map, the two vaults of a pool lead to the same pool object, and
\* no handle_update call removes a key from either map.
C32_IndexCoversSubscribedKeys ==
    /\ [](SubscribedKeys \subseteq
            (DOMAIN vault_to_pool_map \cap DOMAIN last_updated))
    /\ [](\A id \in DOMAIN pool :
            \A v \in PoolVaults(id) :
                v \in DOMAIN vault_to_pool_map /\ vault_to_pool_map[v] = id)
    /\ [][/\ DOMAIN vault_to_pool_map \subseteq DOMAIN vault_to_pool_map'
          /\ DOMAIN last_updated \subseteq DOMAIN last_updated']_vars

\* A settlement has reset the flags of one pool and all four vaults are keys.
C32_Witness ==
    /\ obs.fired /\ nupd = 2
    /\ SubscribedKeys = {"A1", "B1", "A2", "B2"}
    /\ DOMAIN last_updated = SubscribedKeys
    /\ \A v \in SubscribedKeys : ~last_updated[v]

\* C33: an update of a vault of pool P leaves every other pool's reserves and
\* the flags of every other pool's vaults as they were, whether or not P's
\* barrier fires.
C33_OtherPoolsUntouched ==
    [][\A v \in TrackedVaults : UpdateStep(v) =>
          LET id == vault_to_pool_map[v]
          IN  /\ \A j \in DOMAIN pool \ {id} : pool'[j] = pool[j]
              /\ \A w \in TrackedVaults :
                    vault_to_pool_map[w] # id =>
                        last_updated'[w] = last_updated[w]
              /\ \A w \in TrackedVaults :
                    vault_to_pool_map'[w] = vault_to_pool_map[w]]_vars

\* Pool P1 settles while a vault of pool P2 has its flag set.
C33_Witness ==
    /\ obs.fired /\ obs.vault = "B1" /\ nupd = 3
    /\ last_updated["A2"] /\ ~last_updated["A1"] /\ ~last_updated["B1"]
    /\ pool["P2"].mint_a_reserve = 0

(***************************************************************************)
(* Properties of the two driver loops.                                     *)
(***************************************************************************)
\* C31: fed the same outcomes, Listener::start and start_price_listener are
\* at the same position with the same attempt count and the same number of
\* handled updates after every step, and the step each has just taken
\* (connect, subscribe, handle, end of session, backoff, wake-up, stop) is the
\* same; both stop only with the count at 5 and never exceed it.
C31_SameProtocol ==
    /\ inst[1] = inst[2]
    /\ \A i \in Instances :
          /\ inst[i].attempt <= 5
          /\ inst[i].pc = "stopped" => inst[i].attempt = 5
          /\ (inst[i].pc = "sleep" => inst[i].attempt < 5)

\* Both loops have stopped after a last session that handled updates.
C31_Witness ==
    /\ inst[1].pc = "stopped" /\ inst[2].pc = "stopped"
    /\ inst[1].did = "stop" /\ inst[2].did = "stop"
    /\ inst[2].msgs = MaxMsgs

(***************************************************************************)
(* Properties of main beside the stopped price driver.                     *)
(***************************************************************************)
DriverStopped == inst[2].pc = "stopped"

====
